---------------------------- MODULE Spec2Model ----------------------------
(***************************************************************************)
(* Model of mipimipi/otr: the decoder of encoded recordings                *)
(* (src/src/video/decoding.rs), cut list validation                        *)
(* (src/otr-utils/src/cutting/cutlist.rs, src/src/video/cutting/cutlist.rs)*)
(* and the frame-accurate cutting planner                                  *)
(* (src/otr-utils/src/cutting/{ffmpeg,interval,info}.rs).                  *)
(*                                                                         *)
(* The three subsystems share one set of variables.  Each has its own      *)
(* specification (Spec for the decoder, SpecValidate, SpecPlan) whose      *)
(* initial condition parks the variables of the other two.                 *)
(***************************************************************************)
EXTENDS Integers, Sequences, FiniteSets, TLC

VARIABLES
    \* ---- decoder (decoding.rs) ----
    pc,             \* position of the thread that runs decode()
    result,         \* "none" | "ok" | "err" | "panic": how decode() ended
    failure,        \* the step at which decode() failed, "none" otherwise
    in_file,        \* the encoded file: length, magic, header parameters
    env,            \* credentials and the key server's answer
    in_exists,      \* the file at in_path exists
    out_exists,     \* a file at out_path exists
    out_file,       \* the chunks written to out_path, in file order
    sizes,          \* result of chunk_sizes(), the loop's iteration space
    nread,          \* number of chunks read so far
    key_valid,      \* the decoding key HP is usable by the cipher
    workers,        \* per chunk decrypt thread: state and chunk
    thread_handles, \* handles not yet joined, in the order of the vector
    senders,        \* which hash channel senders are still alive
    queues,         \* chunks in flight in the two hash channels
    hashers,        \* the two hashing_queue threads: state and digest
    verified,       \* which of the two checksums have been verified
    \* ---- cut list validation (cutlist.rs) ----
    cutlist,        \* items: per kind the vector of items, or None
    v_pc,           \* "idle" | "ready" | "done"
    v_result,       \* verdict of the two validate() functions
    \* ---- cutting planner (ffmpeg.rs, interval.rs, info.rs) ----
    times,          \* Metadata.times: timestamp per frame number
    key_frames,     \* Metadata.key_frames: sorted key frame numbers
    interval,       \* the frame interval handed to extract_interval
    interval_kf,    \* result of to_key_frames, or None
    p_pc,           \* position inside extract_interval
    plan,           \* the ffmpeg invocations issued so far, in order
    p_result,       \* "none" | "ok" | "err" | "panic"
    \* ---- cutting with a cut list (cutting/mod.rs, ffmpeg.rs) ----
    headers,        \* result of headers_from_provider: (id, rating) vector
    h_next,         \* number of headers the auto-select loop has taken
    tried,          \* candidates whose attempt has ended, in order
    c_cutlist,      \* the cut list handed to cut_with_cutlist
    metadata,       \* Metadata::new of the video, or None when it failed
    view,           \* the kind of the intervals ffmpeg::cut works on
    attempts,       \* ffmpeg::cut calls of this cut_with_cutlist call
    cutting_dir,    \* None, or the number of part files in the directory
    n_extracted,    \* intervals ffmpeg::cut has extracted so far
    call_result,    \* "none" | "ok" | "err": result of cut_with_cutlist
    c_pc,           \* position in auto-select / cut_with_cutlist / cut
    c_result,       \* "none" | "ok" | "err" | "no_cutlist"
    \* ---- pipeline driver (main.rs, video/mod.rs, collecting.rs) ----
    command,        \* "decode" | "cut" | "process": the sub command
    disk,           \* the video files that exist, as (dir, name)
    in_videos,      \* the paths collect() examines, in order
    videos,         \* the vector collect() returns, with later updates
    origin,         \* per video the path it was given as and the Video collect() made
    kept,           \* indices of the videos that survive dedup_by
    d_idx,          \* number of surviving videos the decode map has seen
    cut_done,       \* surviving videos whose cut closure has run
    cut_running,    \* surviving videos whose cut closure is running
    fs_log,         \* file operations of the run, in order
    stage_log,      \* calls of Video::decode and Video::cut, in order
    d_pc,           \* "collect" | "decode" | "cut" | "collect_err" | "exit"
    exit_code,      \* "none" | "0" | "1" | "panic"
    \* ---- file names and keys across runs (video/mod.rs) ----
    k_name,         \* file name of the recording in its current stage
    k_video,        \* Video::new of k_name, or None
    k_log,          \* (status, key) of every Video::new so far
    \* ---- cut list INI round trip (cutting/cutlist.rs) ----
    i_list,         \* the cut list that is serialized
    i_ini,          \* the Ini structure to_ini built, or None
    i_parsed,       \* None, or the result of TryFrom<&Ini> once it is called
    \* ---- boundaries and intervals from strings (interval.rs, cutlist.rs) ----
    s_str,          \* the string handed to a parsing function, as characters
    s_call          \* None, or the function called and what it returned

decVars == <<pc, result, failure, in_file, env, in_exists, out_exists,
             out_file, sizes, nread, key_valid, workers, thread_handles,
             senders, queues, hashers, verified>>
valVars == <<cutlist, v_pc, v_result>>
planVars == <<times, key_frames, interval, interval_kf, p_pc, plan, p_result>>
cutVars == <<headers, h_next, tried, c_cutlist, metadata, view, attempts,
             cutting_dir, n_extracted, call_result, c_pc, c_result>>
drvVars == <<command, disk, in_videos, videos, origin, kept, d_idx, cut_done,
             cut_running, fs_log, stage_log, d_pc, exit_code>>
keyVars == <<k_name, k_video, k_log>>
iniVars == <<i_list, i_ini, i_parsed>>
strVars == <<s_str, s_call>>
vars == <<decVars, valVars, planVars, cutVars, drvVars, keyVars, iniVars,
          strVars>>

None == "None"

\* Option<T>
Some(v) == [some |-> TRUE, v |-> v]
Nothing == [some |-> FALSE]

(***************************************************************************)
(* Bounds of the model.                                                    *)
(***************************************************************************)
MaxFullChunks == 2   \* full MAX_CHUNK_SIZE chunks in a payload
MaxMidBlocks == 1    \* blocks in the chunk after the full chunks
MaxRem == 1          \* bytes in the final, shorter-than-a-block chunk
MaxShort == 1        \* how far a declared size may fall short of the header
MaxCuts == 2         \* items per kind of a cut list
MaxBoundary == 2     \* largest start/end value of a cut list item
NumFrames == 5       \* frames of the exhaustively enumerated media
MaxLate == 1         \* how far an interval may reach past the last frame
FrameDuration == 40  \* distance of two timestamps of the frame table

(***************************************************************************)
(* Constants of decoding.rs.                                               *)
(***************************************************************************)
FILETYPE_LENGTH == 10
PREAMBLE_LENGTH == 512
HEADER_LENGTH == FILETYPE_LENGTH + PREAMBLE_LENGTH
BLOCK_SIZE == 8
MAX_CHUNK_SIZE == 10 * 1024 * 1024

RECURSIVE SumSeq(_)
SumSeq(s) == IF s = <<>> THEN 0 ELSE Head(s) + SumSeq(Tail(s))

(***************************************************************************)
(* chunk_sizes: [MAX_CHUNK_SIZE, ..., MAX_CHUNK_SIZE, CHUNK_SIZE,          *)
(* REMAINDER].                                                             *)
(***************************************************************************)
chunk_sizes(file_size) ==
    LET full_chunks == file_size \div MAX_CHUNK_SIZE
        remainder == file_size % MAX_CHUNK_SIZE
        s0 == [i \in 1..full_chunks |-> MAX_CHUNK_SIZE]
        s1 == IF remainder \div BLOCK_SIZE > 0
              THEN Append(s0, (remainder \div BLOCK_SIZE) * BLOCK_SIZE)
              ELSE s0
    IN  IF remainder % BLOCK_SIZE > 0
        THEN Append(s1, remainder % BLOCK_SIZE)
        ELSE s1

(***************************************************************************)
(* A chunk is identified by its position in the input (idx), carries its   *)
(* length, and is either still encoded or decrypted.  vec![0u8; n] has a   *)
(* capacity of exactly n, so capacity() is the chunk's size.               *)
(***************************************************************************)
Chunk(k, n) == [idx |-> k, size |-> n, decrypted |-> FALSE]

\* decode_chunk with the comparison of line 166 turned strict.
decode_chunk_strict(keyOk, chunk) ==
    IF chunk.size > BLOCK_SIZE
    THEN IF keyOk
         THEN [panicked |-> FALSE, chunk |-> [chunk EXCEPT !.decrypted = TRUE]]
         ELSE [panicked |-> TRUE, chunk |-> chunk]
    ELSE [panicked |-> FALSE, chunk |-> chunk]

\* decode_chunk: what the worker thread of a chunk returns; "panic" when the
\* cipher cannot be built from the key.
decode_chunk(keyOk, chunk) ==
    IF chunk.size >= BLOCK_SIZE
    THEN IF keyOk
         THEN [panicked |-> FALSE, chunk |-> [chunk EXCEPT !.decrypted = TRUE]]
         ELSE [panicked |-> TRUE, chunk |-> chunk]
    ELSE [panicked |-> FALSE, chunk |-> chunk]

\* file_size_from_params: the SZ header parameter as usize.
file_size_from_params(header_params) == header_params.SZ

(***************************************************************************)
(* Inputs of one decode: the encoded file and the environment.             *)
(***************************************************************************)
PayloadSizes ==
    { f * MAX_CHUNK_SIZE + m * BLOCK_SIZE + r :
        f \in 0..MaxFullChunks, m \in 0..MaxMidBlocks, r \in 0..MaxRem }

DeclaredSizes ==
    { HEADER_LENGTH + p : p \in PayloadSizes }
        \cup { HEADER_LENGTH - d : d \in 1..MaxShort }

HashKinds == {"good", "bad", "malformed"}

\* The file on disk: its length relative to what the header declares, whether
\* the magic is right, whether the decrypted preamble has all parameters,
\* whether SZ parses as an unsigned integer, and SZ, OH, FH.
InputFiles ==
    [ len : {"no_header", "too_small", "complete"},
      magic_ok : BOOLEAN,
      params_ok : BOOLEAN,
      sz_parses : BOOLEAN,
      SZ : DeclaredSizes,
      OH : HashKinds,
      FH : HashKinds ]

\* Files that differ only in fields decode never gets to read are the same
\* input: keep one representative of each.
Relevant(f) ==
    /\ (f.len = "no_header" => f.magic_ok /\ f.params_ok)
    /\ (~f.magic_ok => f.params_ok /\ f.len = "complete")
    /\ (~f.params_ok => f.len = "complete")
    /\ (~f.sz_parses => f.magic_ok /\ f.params_ok /\ f.len = "complete")
    /\ (f.len = "no_header" \/ ~f.magic_ok \/ ~f.params_ok \/ ~f.sz_parses
            => f.SZ = HEADER_LENGTH /\ f.OH = "good" /\ f.FH = "good")
    \* a file from which the header could be read is shorter than the
    \* declared size only if that size exceeds the header
    /\ (f.len = "too_small" => f.SZ > HEADER_LENGTH)
    /\ (f.SZ < HEADER_LENGTH \/ f.len = "too_small"
            => f.OH = "good" /\ f.FH = "good")
    /\ (f.OH # "good" => f.FH = "good")

Environments ==
    [ creds : {"ok", "missing", "too_long"},
      response : {"ok", "server_error", "short", "corrupt"},
      key : {"valid", "invalid"} ]

RelevantEnv(e) ==
    /\ (e.creds # "ok" => e.response = "ok")
    /\ (e.creds # "ok" \/ e.response # "ok" => e.key = "valid")

HashNames == {"enc", "dec"}

InitDecode ==
    /\ pc = "start"
    /\ result = "none"
    /\ failure = "none"
    /\ in_file \in { f \in InputFiles : Relevant(f) }
    /\ env \in { e \in Environments : RelevantEnv(e) }
    /\ in_exists = TRUE
    /\ out_exists = FALSE
    /\ out_file = <<>>
    /\ sizes = <<>>
    /\ nread = 0
    /\ key_valid = TRUE
    /\ workers = <<>>
    /\ thread_handles = <<>>
    /\ senders = {}
    /\ queues = [h \in HashNames |-> <<>>]
    /\ hashers = [h \in HashNames |-> [state |-> "unborn", digest |-> <<>>]]
    /\ verified = {}

IdleDecode ==
    /\ pc = "idle"
    /\ result = "none"
    /\ failure = "none"
    /\ in_file = None
    /\ env = None
    /\ in_exists = FALSE
    /\ out_exists = FALSE
    /\ out_file = <<>>
    /\ sizes = <<>>
    /\ nread = 0
    /\ key_valid = TRUE
    /\ workers = <<>>
    /\ thread_handles = <<>>
    /\ senders = {}
    /\ queues = [h \in HashNames |-> <<>>]
    /\ hashers = [h \in HashNames |-> [state |-> "unborn", digest |-> <<>>]]
    /\ verified = {}


(***************************************************************************)
(* How decode() and decode_in_parallel() leave.                            *)
(***************************************************************************)
\* decode() returns Err before decode_in_parallel was called.
ReturnErr(step) ==
    /\ pc' = "done"
    /\ result' = "err"
    /\ failure' = step

\* The thread running decode() panics (or the process aborts).
Panic(step) ==
    /\ pc' = "done"
    /\ result' = "panic"
    /\ failure' = IF failure = "none" THEN step ELSE failure

\* decode_in_parallel returns Err: its locals, among them both senders, are
\* dropped, and decode() goes on to remove the output file.
ParallelErr(step) ==
    /\ pc' = "cleanup"
    /\ failure' = step
    /\ senders' = {}
    /\ UNCHANGED result

(***************************************************************************)
(* decode(), lines 65-67, with header_params(): open the file, read and    *)
(* decrypt the header, extract FN, SZ, OH, FH.                             *)
(***************************************************************************)
HeaderParams ==
    /\ pc = "start"
    /\ \E opened \in BOOLEAN :
        IF ~opened \/ in_file.len = "no_header" \/ ~in_file.magic_ok
                \/ ~in_file.params_ok
        THEN ReturnErr("header")
        ELSE pc' = "size_check" /\ UNCHANGED <<result, failure>>
    /\ UNCHANGED <<in_file, env, in_exists, out_exists, out_file, sizes,
                   nread, key_valid, workers, thread_handles, senders,
                   queues, hashers, verified>>
    /\ UNCHANGED <<valVars, planVars, cutVars, drvVars, keyVars, iniVars, strVars>>

(***************************************************************************)
(* decode(), lines 69-72: the file must not be shorter than SZ.  An SZ     *)
(* that is no number makes file_size_from_params panic in unwrap().        *)
(***************************************************************************)
SizeCheck ==
    /\ pc = "size_check"
    /\ IF ~in_file.sz_parses
       THEN Panic("size_check")
       ELSE IF in_file.len = "too_small"
            THEN ReturnErr("size_check")
            ELSE pc' = "key_exchange" /\ UNCHANGED <<result, failure>>
    /\ UNCHANGED <<in_file, env, in_exists, out_exists, out_file, sizes,
                   nread, key_valid, workers, thread_handles, senders,
                   queues, hashers, verified>>
    /\ UNCHANGED <<valVars, planVars, cutVars, drvVars, keyVars, iniVars, strVars>>

(***************************************************************************)
(* decode(), lines 74-94: access data, cbc_key, decoding_params_request    *)
(* and decoding_params.  Credentials too long for the 504 byte payload     *)
(* underflow the padding length (line 361), a response shorter than the    *)
(* error indicator is sliced out of range (line 293): both panic.          *)
(***************************************************************************)
KeyExchange ==
    /\ pc = "key_exchange"
    /\ IF env.creds = "missing"
       THEN ReturnErr("key_exchange") /\ UNCHANGED key_valid
       ELSE IF env.creds = "too_long" \/ env.response = "short"
       THEN Panic("key_exchange") /\ UNCHANGED key_valid
       ELSE IF env.response # "ok"
       THEN ReturnErr("key_exchange") /\ UNCHANGED key_valid
       ELSE /\ pc' = "create"
            /\ key_valid' = (env.key = "valid")
            /\ UNCHANGED <<result, failure>>
    /\ UNCHANGED <<in_file, env, in_exists, out_exists, out_file, sizes,
                   nread, workers, thread_handles, senders, queues, hashers,
                   verified>>
    /\ UNCHANGED <<valVars, planVars, cutVars, drvVars, keyVars, iniVars, strVars>>

(***************************************************************************)
(* decode_in_parallel, lines 186-200: create the output file, the two      *)
(* channels and the two hashing threads.                                   *)
(***************************************************************************)
CreateOut ==
    /\ pc = "create"
    /\ \E created \in BOOLEAN :
        IF created
        THEN /\ out_exists' = TRUE
             /\ out_file' = <<>>
             /\ senders' = HashNames
             /\ hashers' = [h \in HashNames |->
                                [state |-> "running", digest |-> <<>>]]
             /\ pc' = "chunk_sizes"
             /\ UNCHANGED <<result, failure>>
        ELSE /\ ParallelErr("create")
             /\ UNCHANGED <<out_exists, out_file, hashers>>
    /\ UNCHANGED <<in_file, env, in_exists, sizes, nread, key_valid, workers,
                   thread_handles, queues, verified>>
    /\ UNCHANGED <<valVars, planVars, cutVars, drvVars, keyVars, iniVars, strVars>>

(***************************************************************************)
(* decode_in_parallel, line 204: the iteration space of the read loop.     *)
(* SZ - HEADER_LENGTH is a subtraction of usize values: for SZ below       *)
(* HEADER_LENGTH a debug build panics on the overflow, a release build     *)
(* wraps to 2^64 - (HEADER_LENGTH - SZ) and aborts in vec![MAX_CHUNK_SIZE; *)
(* full_chunks] (more than 10^12 elements).  Neither returns.              *)
(***************************************************************************)
ChunkSizes ==
    /\ pc = "chunk_sizes"
    /\ IF file_size_from_params(in_file) < HEADER_LENGTH
       THEN Panic("chunk_sizes") /\ UNCHANGED sizes
       ELSE /\ sizes' = chunk_sizes(file_size_from_params(in_file)
                                        - HEADER_LENGTH)
            /\ pc' = "read"
            /\ UNCHANGED <<result, failure>>
    /\ UNCHANGED <<in_file, env, in_exists, out_exists, out_file, nread,
                   key_valid, workers, thread_handles, senders, queues,
                   hashers, verified>>
    /\ UNCHANGED <<valVars, planVars, cutVars, drvVars, keyVars, iniVars, strVars>>

(***************************************************************************)
(* decode_in_parallel, lines 204-225: one iteration of the read loop.      *)
(* The chunk read is sent to the hasher of the encoded file and handed to  *)
(* a new thread; the thread's handle is pushed onto thread_handles.        *)
(***************************************************************************)
ReadChunk ==
    /\ pc = "read"
    /\ nread < Len(sizes)
    /\ \E outcome \in {"full", "short", "io_error"} :
        IF outcome = "full"
        THEN LET k == nread + 1
                 chunk == Chunk(k, sizes[k])
             IN  /\ nread' = k
                 /\ queues' = [queues EXCEPT !["enc"] = Append(@, chunk)]
                 /\ workers' = Append(workers,
                                      [state |-> "running", chunk |-> chunk])
                 /\ thread_handles' = Append(thread_handles, k)
                 /\ UNCHANGED <<pc, result, failure, senders>>
        ELSE /\ ParallelErr("read")
             /\ UNCHANGED <<nread, queues, workers, thread_handles>>
    /\ UNCHANGED <<in_file, env, in_exists, out_exists, out_file, sizes,
                   key_valid, hashers, verified>>
    /\ UNCHANGED <<valVars, planVars, cutVars, drvVars, keyVars, iniVars, strVars>>

\* decode_in_parallel, line 228: drop(enc_hash_sender) after the read loop.
DropEncSender ==
    /\ pc = "read"
    /\ nread = Len(sizes)
    /\ senders' = senders \ {"enc"}
    /\ pc' = "join"
    /\ UNCHANGED <<result, failure, in_file, env, in_exists, out_exists,
                   out_file, sizes, nread, key_valid, workers,
                   thread_handles, queues, hashers, verified>>
    /\ UNCHANGED <<valVars, planVars, cutVars, drvVars, keyVars, iniVars, strVars>>

(***************************************************************************)
(* The thread spawned in line 222 for chunk k runs decode_chunk.           *)
(***************************************************************************)
WorkerRun(k) ==
    /\ workers[k].state = "running"
    /\ LET r == decode_chunk(key_valid, workers[k].chunk)
       IN  workers' = [workers EXCEPT ![k] =
                [state |-> IF r.panicked THEN "panicked" ELSE "done",
                 chunk |-> r.chunk]]
    /\ UNCHANGED <<pc, result, failure, in_file, env, in_exists, out_exists,
                   out_file, sizes, nread, key_valid, thread_handles,
                   senders, queues, hashers, verified>>
    /\ UNCHANGED <<valVars, planVars, cutVars, drvVars, keyVars, iniVars, strVars>>

\* The join loop taking the handles from the back of the vector.
NextHandleLast(handles) == Len(handles)

\* Position in thread_handles of the handle the join loop takes next:
\* "for handle in thread_handles" consumes the vector from the front.
NextHandle(handles) == 1

RemoveAt(s, i) == SubSeq(s, 1, i - 1) \o SubSeq(s, i + 1, Len(s))

(***************************************************************************)
(* decode_in_parallel, lines 233-250: one iteration of the join loop.      *)
(* join() blocks until the thread has ended.                               *)
(***************************************************************************)
JoinNext ==
    /\ pc = "join"
    /\ thread_handles # <<>>
    /\ LET i == NextHandle(thread_handles)
           w == workers[thread_handles[i]]
       IN  /\ w.state # "running"
           /\ IF w.state = "done"
              THEN /\ queues' = [queues EXCEPT !["dec"] = Append(@, w.chunk)]
                   /\ \E written \in BOOLEAN :
                        IF written
                        THEN /\ out_file' = Append(out_file, w.chunk)
                             /\ thread_handles' = RemoveAt(thread_handles, i)
                             /\ UNCHANGED <<pc, result, failure, senders>>
                        ELSE /\ ParallelErr("write")
                             /\ UNCHANGED <<out_file, thread_handles>>
              ELSE /\ ParallelErr("worker")
                   /\ UNCHANGED <<queues, out_file, thread_handles>>
    /\ UNCHANGED <<in_file, env, in_exists, out_exists, sizes, nread,
                   key_valid, workers, hashers, verified>>
    /\ UNCHANGED <<valVars, planVars, cutVars, drvVars, keyVars, iniVars, strVars>>

\* decode_in_parallel, line 253: drop(dec_hash_sender) after the join loop.
DropDecSender ==
    /\ pc = "join"
    /\ thread_handles = <<>>
    /\ senders' = senders \ {"dec"}
    /\ pc' = "verify_enc"
    /\ UNCHANGED <<result, failure, in_file, env, in_exists, out_exists,
                   out_file, sizes, nread, key_valid, workers,
                   thread_handles, queues, hashers, verified>>
    /\ UNCHANGED <<valVars, planVars, cutVars, drvVars, keyVars, iniVars, strVars>>

(***************************************************************************)
(* hashing_queue: fold the chunks received into the digest until the       *)
(* channel is closed, i.e. empty with every sender dropped.  The MD5 of a  *)
(* byte stream is modelled by the stream itself, as the sequence of chunks.*)
(***************************************************************************)
HashUpdate(h) ==
    /\ hashers[h].state = "running"
    /\ queues[h] # <<>>
    /\ hashers' = [hashers EXCEPT ![h].digest = Append(@, Head(queues[h]))]
    /\ queues' = [queues EXCEPT ![h] = Tail(@)]
    /\ UNCHANGED <<pc, result, failure, in_file, env, in_exists, out_exists,
                   out_file, sizes, nread, key_valid, workers,
                   thread_handles, senders, verified>>
    /\ UNCHANGED <<valVars, planVars, cutVars, drvVars, keyVars, iniVars, strVars>>

HashFinish(h) ==
    /\ hashers[h].state = "running"
    /\ queues[h] = <<>>
    /\ h \notin senders
    /\ hashers' = [hashers EXCEPT ![h].state = "done"]
    /\ UNCHANGED <<pc, result, failure, in_file, env, in_exists, out_exists,
                   out_file, sizes, nread, key_valid, workers,
                   thread_handles, senders, queues, verified>>
    /\ UNCHANGED <<valVars, planVars, cutVars, drvVars, keyVars, iniVars, strVars>>

(***************************************************************************)
(* What the fingerprints of the header stand for.  A "good" OH encodes the *)
(* MD5 of the payload as stored, a "good" FH the MD5 of the recording:     *)
(* every whole block decrypted, the trailing bytes as they are.            *)
(***************************************************************************)
EncodedPayload == [k \in 1..Len(sizes) |-> Chunk(k, sizes[k])]

DecodedPayload ==
    [k \in 1..Len(sizes) |->
        [idx |-> k, size |-> sizes[k], decrypted |-> sizes[k] % BLOCK_SIZE = 0]]

\* the digest of some other byte stream
OtherDigest == <<[idx |-> 0, size |-> 0, decrypted |-> FALSE]>>

Reduced(kind, payload) == IF kind = "good" THEN payload ELSE OtherDigest

\* verify_checksum without the comparison of line 509.
verify_checksum_unchecked(checksum, kind, payload) ==
    IF kind = "malformed" THEN "err" ELSE "true"

\* verify_checksum: "err" for a hash that is not 48 hex characters, else
\* whether the checksum equals the hash reduced to 16 bytes.
verify_checksum(checksum, kind, payload) ==
    IF kind = "malformed" THEN "err"
    ELSE IF checksum = Reduced(kind, payload) THEN "true" ELSE "false"

(***************************************************************************)
(* decode_in_parallel, lines 255-271: join the hashing threads and compare *)
(* the checksums with OH and FH.                                           *)
(***************************************************************************)
VerifyEnc ==
    /\ pc = "verify_enc"
    /\ hashers["enc"].state = "done"
    /\ IF verify_checksum(hashers["enc"].digest, in_file.OH, EncodedPayload)
            = "true"
       THEN /\ verified' = verified \cup {"enc"}
            /\ pc' = "verify_dec"
            /\ UNCHANGED <<result, failure, senders>>
       ELSE ParallelErr("verify_enc") /\ UNCHANGED verified
    /\ UNCHANGED <<in_file, env, in_exists, out_exists, out_file, sizes,
                   nread, key_valid, workers, thread_handles, queues,
                   hashers>>
    /\ UNCHANGED <<valVars, planVars, cutVars, drvVars, keyVars, iniVars, strVars>>

VerifyDec ==
    /\ pc = "verify_dec"
    /\ hashers["dec"].state = "done"
    /\ IF verify_checksum(hashers["dec"].digest, in_file.FH, DecodedPayload)
            = "true"
       THEN /\ verified' = verified \cup {"dec"}
            /\ pc' = "remove_in"
            /\ UNCHANGED <<result, failure, senders>>
       ELSE ParallelErr("verify_dec") /\ UNCHANGED verified
    /\ UNCHANGED <<in_file, env, in_exists, out_exists, out_file, sizes,
                   nread, key_valid, workers, thread_handles, queues,
                   hashers>>
    /\ UNCHANGED <<valVars, planVars, cutVars, drvVars, keyVars, iniVars, strVars>>

(***************************************************************************)
(* decode(), lines 97-110: decode_in_parallel returned Err.  remove_file   *)
(* fails when there is no file at out_path; the failure is turned into a   *)
(* panic.                                                                  *)
(***************************************************************************)
Cleanup ==
    /\ pc = "cleanup"
    /\ IF out_exists
       THEN /\ out_exists' = FALSE
            /\ out_file' = <<>>
            /\ pc' = "done"
            /\ result' = "err"
            /\ UNCHANGED failure
       ELSE Panic("cleanup") /\ UNCHANGED <<out_exists, out_file>>
    /\ UNCHANGED <<in_file, env, in_exists, sizes, nread, key_valid, workers,
                   thread_handles, senders, queues, hashers, verified>>
    /\ UNCHANGED <<valVars, planVars, cutVars, drvVars, keyVars, iniVars, strVars>>

(***************************************************************************)
(* decode(), lines 112-120: remove the encoded file.                       *)
(***************************************************************************)
RemoveIn ==
    /\ pc = "remove_in"
    /\ \E removed \in BOOLEAN :
        IF removed
        THEN /\ in_exists' = FALSE
             /\ result' = "ok"
             /\ UNCHANGED failure
        ELSE /\ result' = "err"
             /\ failure' = "remove_in"
             /\ UNCHANGED in_exists
    /\ pc' = "done"
    /\ UNCHANGED <<in_file, env, out_exists, out_file, sizes, nread,
                   key_valid, workers, thread_handles, senders, queues,
                   hashers, verified>>
    /\ UNCHANGED <<valVars, planVars, cutVars, drvVars, keyVars, iniVars, strVars>>

Workers == \E k \in 1..Len(workers) : WorkerRun(k)
Hashers == \E h \in HashNames : HashUpdate(h) \/ HashFinish(h)

NextDecode ==
    \/ HeaderParams
    \/ SizeCheck
    \/ KeyExchange
    \/ CreateOut
    \/ ChunkSizes
    \/ ReadChunk
    \/ DropEncSender
    \/ Workers
    \/ JoinNext
    \/ DropDecSender
    \/ Hashers
    \/ VerifyEnc
    \/ VerifyDec
    \/ Cleanup
    \/ RemoveIn

IdleValidate ==
    /\ cutlist = None
    /\ v_pc = "idle"
    /\ v_result = None

IdlePlan ==
    /\ times = <<>>
    /\ key_frames = <<>>
    /\ interval = None
    /\ interval_kf = Nothing
    /\ p_pc = "idle"
    /\ plan = <<>>
    /\ p_result = "none"

\* The subsystems added with the cut, the driver, the file names and the
\* INI form are parked, but for the one that is active.
IdleLate(active) ==
    /\ IF active = "cut" THEN TRUE
       ELSE /\ headers = <<>>
            /\ h_next = 0
            /\ tried = <<>>
            /\ c_cutlist = Nothing
            /\ metadata = Nothing
            /\ view = "none"
            /\ attempts = <<>>
            /\ cutting_dir = Nothing
            /\ n_extracted = 0
            /\ call_result = "none"
            /\ c_pc = "idle"
            /\ c_result = "none"
    /\ IF active = "driver" THEN TRUE
       ELSE /\ command = "none"
            /\ disk = {}
            /\ in_videos = <<>>
            /\ videos = <<>>
            /\ origin = <<>>
            /\ kept = <<>>
            /\ d_idx = 0
            /\ cut_done = {}
            /\ cut_running = {}
            /\ fs_log = <<>>
            /\ stage_log = <<>>
            /\ d_pc = "idle"
            /\ exit_code = "none"
    /\ IF active = "key" THEN TRUE
       ELSE /\ k_name = <<>>
            /\ k_video = Nothing
            /\ k_log = <<>>
    /\ IF active = "ini" THEN TRUE
       ELSE /\ i_list = Nothing
            /\ i_ini = Nothing
            /\ i_parsed = Nothing
    /\ IF active = "str" THEN TRUE
       ELSE /\ s_str = <<>>
            /\ s_call = Nothing

Init == InitDecode /\ IdleValidate /\ IdlePlan /\ IdleLate("none")
Next == NextDecode
Spec == Init /\ [][Next]_vars



(***************************************************************************)
(* Cut list validation.  A cut list maps each kind it carries to a vector  *)
(* of items (start, end).                                                  *)
(***************************************************************************)
Kinds == {"Frames", "Time"}

Items == [start : 0..MaxBoundary, end : 0..MaxBoundary]

ItemVectors == UNION { [1..n -> Items] : n \in 0..MaxCuts }

\* The list of the validation scenario: frame view [[0,100],[50,200]].
OverlapExample ==
    [k \in {"Frames"} |->
        <<[start |-> 0, end |-> 100], [start |-> 50, end |-> 200]>>]

Cutlists ==
    UNION { [D -> ItemVectors] : D \in SUBSET Kinds } \cup { OverlapExample }

(***************************************************************************)
(* validate_intervals, the function nested in both validate(): the loop    *)
(* over the items from item i on.  last_item is bound once, to None,       *)
(* before the loop, and is not assigned in the loop.                       *)
(***************************************************************************)
RECURSIVE validate_intervals(_, _, _)
validate_intervals(items, i, last_item) ==
    IF i > Len(items) THEN "ok"
    ELSE IF items[i].start > items[i].end THEN "err"
    ELSE IF last_item.some /\ last_item.v.end > items[i].start THEN "err"
    ELSE validate_intervals(items, i + 1, last_item)

is_of_kind(cl, kind) == kind \in DOMAIN cl

\* Cutlist::validate of otr-utils/src/cutting/cutlist.rs
Cutlist_validate(cl) ==
    IF DOMAIN cl = {} THEN "err"
    ELSE IF /\ is_of_kind(cl, "Frames")
            /\ is_of_kind(cl, "Time")
            /\ Len(cl["Frames"]) # Len(cl["Time"])
    THEN "err"
    ELSE IF is_of_kind(cl, "Frames")
            /\ validate_intervals(cl["Frames"], 1, Nothing) = "err"
    THEN "err"
    ELSE IF is_of_kind(cl, "Time")
            /\ validate_intervals(cl["Time"], 1, Nothing) = "err"
    THEN "err"
    ELSE "ok"

\* CutList::validate of src/video/cutting/cutlist.rs
CutList_validate(cl) ==
    IF DOMAIN cl = {} THEN "err"
    ELSE IF is_of_kind(cl, "Frames")
            /\ validate_intervals(cl["Frames"], 1, Nothing) = "err"
    THEN "err"
    ELSE IF is_of_kind(cl, "Time")
            /\ validate_intervals(cl["Time"], 1, Nothing) = "err"
    THEN "err"
    ELSE "ok"

InitValidate ==
    /\ cutlist \in Cutlists
    /\ v_pc = "ready"
    /\ v_result = [utils |-> "none", video |-> "none"]

\* A caller (TryFrom<&Ini>, try_from_intervals) validates the list it built.
ValidateUtils ==
    /\ v_pc = "ready"
    /\ v_result.utils = "none"
    /\ v_result' = [v_result EXCEPT !.utils = Cutlist_validate(cutlist)]
    /\ UNCHANGED <<cutlist, v_pc>>
    /\ UNCHANGED <<decVars, planVars, cutVars, drvVars, keyVars, iniVars, strVars>>

ValidateVideo ==
    /\ v_pc = "ready"
    /\ v_result.video = "none"
    /\ v_result' = [v_result EXCEPT !.video = CutList_validate(cutlist)]
    /\ UNCHANGED <<cutlist, v_pc>>
    /\ UNCHANGED <<decVars, planVars, cutVars, drvVars, keyVars, iniVars, strVars>>

NextValidate == ValidateUtils \/ ValidateVideo

ValidateInit == InitValidate /\ IdleDecode /\ IdlePlan /\ IdleLate("none")

SpecValidate == ValidateInit /\ [][NextValidate]_vars


(***************************************************************************)
(* Media metadata (info.rs).  Frame numbers count from 0; times[f + 1] is  *)
(* the timestamp of frame f, key_frames is sorted ascending.               *)
(***************************************************************************)
has_frames == times # <<>>

\* slice::binary_search on a strictly increasing slice: Ok(i) with the
\* 0-based position of x, or Err(i) with the position where x would be
\* inserted, the number of elements less than x.
binary_search(s, x) ==
    IF \E j \in 1..Len(s) : s[j] = x
    THEN [found |-> TRUE, i |-> (CHOOSE j \in 1..Len(s) : s[j] = x) - 1]
    ELSE [found |-> FALSE, i |-> Cardinality({ j \in 1..Len(s) : s[j] < x })]

\* Metadata::frame_to_time
frame_to_time(frame) ==
    IF frame >= Len(times) THEN Nothing ELSE Some(times[frame + 1])

\* time_to_frame taking the frame after the next one for a time that is
\* not in the table.
time_to_frame_after_next(time) ==
    IF times = <<>> THEN Nothing
    ELSE LET r == binary_search(times, time)
         IN  IF r.found THEN Some(r.i)
             ELSE IF r.i + 1 >= Len(times) THEN Some(Len(times) - 1)
             ELSE Some(r.i + 1)

\* Metadata::time_to_frame
time_to_frame(time) ==
    IF times = <<>> THEN Nothing
    ELSE LET r == binary_search(times, time)
         IN  IF r.found THEN Some(r.i)
             ELSE IF r.i = Len(times) THEN Some(r.i - 1) ELSE Some(r.i)

\* key_frame_less_or_equal_until_limit without the test against limit.
key_frame_less_or_equal_unlimited(frame, limit) ==
    LET r == binary_search(key_frames, frame)
    IN  IF limit > frame THEN [some |-> FALSE, panic |-> TRUE]
        ELSE IF r.found THEN Some(frame)
        ELSE IF r.i > 0
             THEN Some(key_frames[(r.i - 1) + 1])
             ELSE Nothing

\* Metadata::key_frame_less_or_equal_until_limit; panics for limit > frame
key_frame_less_or_equal_until_limit(frame, limit) ==
    LET r == binary_search(key_frames, frame)
    IN  IF limit > frame THEN [some |-> FALSE, panic |-> TRUE]
        ELSE IF r.found THEN Some(frame)
        ELSE IF r.i > 0 /\ key_frames[(r.i - 1) + 1] >= limit
             THEN Some(key_frames[(r.i - 1) + 1])
             ELSE Nothing

\* key_frame_greater_or_equal_until_limit without the test against limit.
key_frame_greater_or_equal_unlimited(frame, limit) ==
    LET r == binary_search(key_frames, frame)
    IN  IF limit < frame THEN [some |-> FALSE, panic |-> TRUE]
        ELSE IF r.found THEN Some(frame)
        ELSE IF r.i + 1 < Len(key_frames)
             THEN Some(key_frames[(r.i + 1) + 1])
             ELSE Nothing

\* Metadata::key_frame_greater_or_equal_until_limit; panics for limit < frame
key_frame_greater_or_equal_until_limit(frame, limit) ==
    LET r == binary_search(key_frames, frame)
    IN  IF limit < frame THEN [some |-> FALSE, panic |-> TRUE]
        ELSE IF r.found THEN Some(frame)
        ELSE IF r.i + 1 < Len(key_frames)
                    /\ key_frames[(r.i + 1) + 1] <= limit
             THEN Some(key_frames[(r.i + 1) + 1])
             ELSE Nothing

(***************************************************************************)
(* Intervals (interval.rs).  An interval is of kind "frame" or "time".     *)
(***************************************************************************)
Interval(kind, from, to) == [kind |-> kind, from |-> from, to |-> to]

\* Interval::from_from_to
from_from_to(kind, from, to) ==
    IF from < to THEN Interval(kind, from, to) ELSE Interval(kind, to, from)

\* Boundary::to_frame
to_frame(kind, b) ==
    IF kind = "frame" THEN Some(b)
    ELSE IF ~has_frames THEN Nothing ELSE time_to_frame(b)

\* Boundary::to_time
to_time(kind, b) == IF kind = "frame" THEN frame_to_time(b) ELSE Some(b)

\* Interval::to_frames
to_frames(itv) ==
    LET f == to_frame(itv.kind, itv.from)
        t == to_frame(itv.kind, itv.to)
    IN  IF f.some /\ t.some THEN Some(Interval("frame", f.v, t.v))
        ELSE Nothing

\* Interval::to_times
to_times(itv) ==
    LET f == to_time(itv.kind, itv.from)
        t == to_time(itv.kind, itv.to)
    IN  IF f.some /\ t.some THEN Some(Interval("time", f.v, t.v))
        ELSE Nothing

\* Interval<Frame>::to_key_frames panics in
\* key_frame_greater_or_equal_until_limit when the limit, the interval's to,
\* is less than its from.
to_key_frames_panics(itv) == itv.to < itv.from

\* Interval<Frame>::to_key_frames, for from <= to
to_key_frames(itv) ==
    LET from == key_frame_greater_or_equal_until_limit(itv.from, itv.to)
    IN  IF from.some
        THEN LET to == key_frame_less_or_equal_until_limit(itv.to, itv.from)
             IN  IF to.some THEN Some(Interval("frame", from.v, to.v))
                 ELSE Nothing
        ELSE Nothing

(***************************************************************************)
(* Inputs of the planner: media of NumFrames frames with every choice of   *)
(* key frames, media without frames, the two media of the cut plan         *)
(* scenarios (1000 frames; key frames 0, 250, 500, 750 and 0, 999), and a  *)
(* media of three frames at uneven distances after a start offset.         *)
(***************************************************************************)
FrameTable(n) == [f \in 1..n |-> (f - 1) * FrameDuration]

RECURSIVE SortedSeq(_)
SortedSeq(S) ==
    IF S = {} THEN <<>>
    ELSE LET m == CHOOSE x \in S : \A y \in S : x <= y
         IN  <<m>> \o SortedSeq(S \ {m})

SmallMedia ==
    { [times |-> FrameTable(NumFrames), key_frames |-> SortedSeq(K)] :
        K \in SUBSET (0..(NumFrames - 1)) }
    \cup { [times |-> <<>>, key_frames |-> <<>>] }

SmallFrames == 0..(NumFrames - 1 + MaxLate)
SmallTimes ==
    { (f * FrameDuration) \div 2 : f \in 0..(2 * (NumFrames - 1 + MaxLate)) }

SmallIntervals ==
    { Interval("frame", a, b) : a \in SmallFrames, b \in SmallFrames }
    \cup { Interval("time", a, b) : a \in SmallTimes, b \in SmallTimes }

ScenarioInputs ==
    { [times |-> FrameTable(1000), key_frames |-> <<0, 250, 500, 750>>,
       interval |-> Interval("frame", 200, 800)],
      [times |-> FrameTable(1000), key_frames |-> <<0, 999>>,
       interval |-> Interval("frame", 300, 400)] }

PlanInputs ==
    { [times |-> m.times, key_frames |-> m.key_frames, interval |-> i] :
        m \in SmallMedia, i \in SmallIntervals }
    \cup ScenarioInputs
    \cup { [times |-> <<20, 60, 140>>, key_frames |-> <<0, 2>>,
            interval |-> i] : i \in SmallIntervals }

InitPlan ==
    /\ \E inp \in PlanInputs :
        /\ times = inp.times
        /\ key_frames = inp.key_frames
        /\ interval = inp.interval
    /\ interval_kf = Nothing
    /\ p_pc = "start"
    /\ plan = <<>>
    /\ p_result = "none"

\* The frame interval extract_interval works on (line 177).
interval_f == to_frames(interval).v

\* One run of ffmpeg: encode_interval or copy_interval for a sub interval.
Invocation(op, id, frames, t) ==
    [op |-> op, id |-> id, frames |-> frames, time |-> t]

PlanEnd(res) == p_pc' = "done" /\ p_result' = res

(***************************************************************************)
(* extract_interval, lines 174-182 and 243-255: without frames the whole   *)
(* interval is copied (to_times(..).unwrap() panics for a frame interval), *)
(* with frames the interval is converted to frames and to key frames.      *)
(***************************************************************************)
ToKeyFrames ==
    /\ p_pc = "start"
    /\ IF ~has_frames
       THEN IF ~to_times(interval).some
            THEN PlanEnd("panic") /\ UNCHANGED <<plan, interval_kf>>
            ELSE /\ plan' = Append(plan,
                        Invocation("copy", "Main", Nothing,
                                   to_times(interval).v))
                 /\ \E ffmpeg_ok \in BOOLEAN :
                        PlanEnd(IF ffmpeg_ok THEN "ok" ELSE "err")
                 /\ UNCHANGED interval_kf
       ELSE IF ~to_frames(interval).some
            THEN PlanEnd("err") /\ UNCHANGED <<plan, interval_kf>>
            ELSE IF to_key_frames_panics(interval_f)
            THEN PlanEnd("panic") /\ UNCHANGED <<plan, interval_kf>>
            ELSE /\ interval_kf' = to_key_frames(interval_f)
                 /\ p_pc' = IF interval_kf'.some THEN "pre" ELSE "whole"
                 /\ UNCHANGED <<plan, p_result>>
    /\ UNCHANGED <<times, key_frames, interval>>
    /\ UNCHANGED <<decVars, valVars, cutVars, drvVars, keyVars, iniVars, strVars>>

\* A sub interval in frames is converted to times and handed to ffmpeg; the
\* conversion or ffmpeg may fail, which ends extract_interval with Err.
RunFfmpeg(op, id, sub, next) ==
    IF ~to_times(sub).some
    THEN PlanEnd("err") /\ UNCHANGED plan
    ELSE /\ plan' = Append(plan,
                Invocation(op, id, Some(sub), to_times(sub).v))
         /\ \E ffmpeg_ok \in BOOLEAN :
                IF ffmpeg_ok
                THEN IF next = "done" THEN PlanEnd("ok")
                     ELSE p_pc' = next /\ UNCHANGED p_result
                ELSE PlanEnd("err")

\* extract_interval, lines 185-201: re-encode the part before the first key
\* frame.
EncodePre ==
    /\ p_pc = "pre"
    /\ IF interval_f.from < interval_kf.v.from
       THEN RunFfmpeg("encode", "Pre",
                from_from_to("frame", interval_f.from,
                             interval_kf.v.from - 1), "main")
       ELSE p_pc' = "main" /\ UNCHANGED <<plan, p_result>>
    /\ UNCHANGED <<times, key_frames, interval, interval_kf>>
    /\ UNCHANGED <<decVars, valVars, cutVars, drvVars, keyVars, iniVars, strVars>>

\* extract_interval, lines 203-211: copy from the first to the last key frame.
CopyMain ==
    /\ p_pc = "main"
    /\ RunFfmpeg("copy", "Main", interval_kf.v, "post")
    /\ UNCHANGED <<times, key_frames, interval, interval_kf>>
    /\ UNCHANGED <<decVars, valVars, cutVars, drvVars, keyVars, iniVars, strVars>>

\* EncodePost with the part after the last key frame starting at that key
\* frame.
EncodePostFromKeyFrame ==
    /\ p_pc = "post"
    /\ IF interval_f.to > interval_kf.v.to
       THEN RunFfmpeg("encode", "Post",
                from_from_to("frame", interval_kf.v.to, interval_f.to),
                "done")
       ELSE PlanEnd("ok") /\ UNCHANGED plan
    /\ UNCHANGED <<times, key_frames, interval, interval_kf>>
    /\ UNCHANGED <<decVars, valVars, cutVars, drvVars, keyVars, iniVars, strVars>>

\* extract_interval, lines 213-229: re-encode the part after the last key
\* frame.
EncodePost ==
    /\ p_pc = "post"
    /\ IF interval_f.to > interval_kf.v.to
       THEN RunFfmpeg("encode", "Post",
                from_from_to("frame", interval_kf.v.to + 1, interval_f.to),
                "done")
       ELSE PlanEnd("ok") /\ UNCHANGED plan
    /\ UNCHANGED <<times, key_frames, interval, interval_kf>>
    /\ UNCHANGED <<decVars, valVars, cutVars, drvVars, keyVars, iniVars, strVars>>

\* extract_interval, lines 230-242: no key frame in the interval, the
\* interval as given is converted to times and re-encoded as Main.
EncodeWhole ==
    /\ p_pc = "whole"
    /\ IF ~to_times(interval).some
       THEN PlanEnd("err") /\ UNCHANGED plan
       ELSE /\ plan' = Append(plan,
                    Invocation("encode", "Main",
                               IF interval.kind = "frame"
                               THEN Some(interval) ELSE Nothing,
                               to_times(interval).v))
            /\ \E ffmpeg_ok \in BOOLEAN :
                    PlanEnd(IF ffmpeg_ok THEN "ok" ELSE "err")
    /\ UNCHANGED <<times, key_frames, interval, interval_kf>>
    /\ UNCHANGED <<decVars, valVars, cutVars, drvVars, keyVars, iniVars, strVars>>

NextPlan == ToKeyFrames \/ EncodePre \/ CopyMain \/ EncodePost \/ EncodeWhole

PlanInit == InitPlan /\ IdleDecode /\ IdleValidate /\ IdleLate("none")

SpecPlan == PlanInit /\ [][NextPlan]_vars

(***************************************************************************)
(* Properties of the decoder, checked under Spec.                          *)
(***************************************************************************)
OutBytes == SumSeq([k \in 1..Len(out_file) |-> out_file[k].size])

\* C2: for every interleaving of the decrypt workers, the k-th chunk of the
\* output file is the result for the k-th chunk read from the input, and a
\* successful decode has written every chunk exactly once.
C2_OutputInReadingOrder ==
    /\ \A k \in 1..Len(out_file) :
            out_file[k].idx = k /\ out_file[k].size = sizes[k]
    /\ (result = "ok" => Len(out_file) = Len(sizes))

\* A later worker has ended while an earlier one still runs, and the writer
\* has already appended a chunk.
C2_Witness ==
    /\ Len(out_file) >= 1
    /\ \E i, j \in 1..Len(workers) :
            i < j /\ workers[i].state = "running" /\ workers[j].state = "done"

IoAndProtocolFailures ==
    {"create", "read", "write", "worker", "key_exchange", "verify_enc",
     "verify_dec"}

\* C3: whenever decode fails (I/O error while creating, reading or writing,
\* failed decrypt worker, key exchange error, fingerprint mismatch), it
\* returns an error and no output file remains at the output path.
C3_FailureReturnsErrAndRemovesOutput ==
    (pc = "done" /\ failure \in IoAndProtocolFailures)
        => (result = "err" /\ ~out_exists)

\* C4: the encoded input file is removed only after the whole payload has
\* been written and both fingerprints have been found to match; whenever
\* decode returns an error, the input file still exists.
C4_InputRemovedOnlyAfterSuccess ==
    /\ ~in_exists =>
            /\ Len(out_file) = Len(sizes)
            /\ OutBytes = in_file.SZ - HEADER_LENGTH
            /\ verified = HashNames
            /\ in_file.OH = "good" /\ hashers["enc"].digest = EncodedPayload
            /\ in_file.FH = "good" /\ hashers["dec"].digest = DecodedPayload
    /\ (result = "err" => in_exists)

\* A decode of three chunks that has removed its input.
C4_Witness == ~in_exists /\ result = "ok" /\ Len(out_file) = 3

\* C5: for every size SZ declared in the header, decode either fails with an
\* error or writes an output file of exactly SZ - 522 bytes.  Stated for the
\* decodes that got as far as creating the output file.
C5_ErrorOrDeclaredSize ==
    (pc = "done" /\ out_exists /\ result # "err")
        => (result = "ok" /\ OutBytes = in_file.SZ - HEADER_LENGTH)

\* The split of a payload of n bytes the specification describes: full C byte
\* chunks, a chunk of (remainder / B) * B bytes, a chunk of remainder mod B
\* bytes, the empty ones left out.
PayloadSplit(n) ==
    LET full == n \div MAX_CHUNK_SIZE
        remainder == n - full * MAX_CHUNK_SIZE
        mid == (remainder \div BLOCK_SIZE) * BLOCK_SIZE
        final == remainder - mid
    IN  [i \in 1..full |-> MAX_CHUNK_SIZE]
            \o (IF mid > 0 THEN <<mid>> ELSE <<>>)
            \o (IF final > 0 THEN <<final>> ELSE <<>>)

ParallelLeft == pc \in {"remove_in", "cleanup", "done"}

\* C27: once the parallel decode is left, however it ended, no sender of a
\* hash channel is alive (so both hashing threads come to an end), and a
\* fingerprint is compared only when both hashing threads have delivered
\* their results.
C27_SendersDroppedHashesBeforeCompare ==
    /\ ParallelLeft => senders = {}
    /\ verified # {} => \A h \in HashNames : hashers[h].state = "done"


(***************************************************************************)
(* Properties of cut list validation, checked under SpecValidate.          *)
(***************************************************************************)
Overlaps(items) ==
    \E i \in 1..(Len(items) - 1) : items[i].end > items[i + 1].start

Ordered(items) ==
    /\ \A i \in 1..(Len(items) - 1) : items[i].end <= items[i + 1].start
    /\ \A i \in 1..Len(items) : items[i].start <= items[i].end

\* C1: validate returns an error for every cut list in which, within one
\* view, an interval ends after the following interval starts; hence every
\* list that passes validation has, in every view, to <= next from and
\* from <= to.
C1_ValidateRejectsOverlap ==
    \A v \in {"utils", "video"} :
        /\ (v_result[v] # "none" /\ \E k \in DOMAIN cutlist :
                Overlaps(cutlist[k])) => v_result[v] = "err"
        /\ v_result[v] = "ok" => \A k \in DOMAIN cutlist : Ordered(cutlist[k])


(***************************************************************************)
(* Properties of the cutting planner, checked under SpecPlan.              *)
(***************************************************************************)
KeyFrameSet == { key_frames[j] : j \in 1..Len(key_frames) }

KeyFramesIn(itv) == { k \in KeyFrameSet : itv.from <= k /\ k <= itv.to }

MinOf(S) == CHOOSE x \in S : \A y \in S : x <= y
MaxOf(S) == CHOOSE x \in S : \A y \in S : x >= y

\* to_key_frames has been evaluated for the frame interval of the run.
KeyFramesComputed == has_frames /\ p_pc # "start" /\ p_result # "panic"

\* The invocations issued, without the time arguments.
PlanInFrames ==
    [i \in 1..Len(plan) |->
        [op |-> plan[i].op, id |-> plan[i].id, frames |-> plan[i].frames]]

Step(op, id, from, to) ==
    [op |-> op, id |-> id, frames |-> Some(Interval("frame", from, to))]

\* Pre, Main, Post around the first key frame kl and the last key frame kr of
\* the interval.
PlanAround(itv) ==
    LET kl == MinOf(KeyFramesIn(itv))
        kr == MaxOf(KeyFramesIn(itv))
    IN  (IF itv.from >= kl THEN <<>>
         ELSE <<Step("encode", "Pre", itv.from, kl - 1)>>)
        \o <<Step("copy", "Main", kl, kr)>>
        \o (IF itv.to <= kr THEN <<>>
            ELSE <<Step("encode", "Post", kr + 1, itv.to)>>)

\* C7: for a frame interval [from, to] that contains a key frame, with kl the
\* first and kr the last key frame in it, the planner issues in this order a
\* re-encode of [from, kl - 1] unless from >= kl, a stream copy of [kl, kr]
\* and a re-encode of [kr + 1, to] unless to <= kr.
C7_PreMainPostInOrder ==
    (/\ p_result = "ok"
     /\ has_frames
     /\ interval.kind = "frame"
     /\ interval.from <= interval.to
     /\ KeyFramesIn(interval) # {})
        => PlanInFrames = PlanAround(interval)

ReencodedAsWhole ==
    Len(plan) = 1 /\ plan[1].op = "encode" /\ plan[1].id = "Main"

\* C8: when the media has frames, an interval is re-encoded as a whole, as
\* the single sub segment Main, exactly when no key frame lies in it;
\* otherwise it is split around a stream-copied Main.
C8_WholeReencodeIffNoKeyFrame ==
    (p_result = "ok" /\ has_frames)
        => /\ ReencodedAsWhole <=> KeyFramesIn(interval_f) = {}
           /\ KeyFramesIn(interval_f) # {}
                => \E i \in 1..Len(plan) :
                        plan[i].op = "copy" /\ plan[i].id = "Main"

\* C9: to_key_frames on [from, to] returns [kl, kr] with kl the least key
\* frame >= from and kr the greatest key frame <= to, and None only if no
\* key frame lies in [from, to].
C9_LargestKeyFrameInterval ==
    KeyFramesComputed
        => interval_kf =
                IF KeyFramesIn(interval_f) = {} THEN Nothing
                ELSE Some(Interval("frame", MinOf(KeyFramesIn(interval_f)),
                                   MaxOf(KeyFramesIn(interval_f))))

\* C10: whenever to_key_frames(I) is Some(J) for a frame interval I with
\* I.from <= I.to and a sorted key frame list, I.from <= J.from <= J.to <=
\* I.to and J.from and J.to are key frames.
C10_KeyFrameIntervalInside ==
    (KeyFramesComputed /\ interval_kf.some)
        => /\ interval_f.from <= interval_kf.v.from
           /\ interval_kf.v.from <= interval_kf.v.to
           /\ interval_kf.v.to <= interval_f.to
           /\ interval_kf.v.from \in KeyFrameSet
           /\ interval_kf.v.to \in KeyFrameSet

\* to_key_frames has returned an interval strictly inside the given one.
C10_Witness ==
    /\ KeyFramesComputed
    /\ interval_kf.some
    /\ interval_f.from < interval_kf.v.from
    /\ interval_kf.v.from < interval_kf.v.to
    /\ interval_kf.v.to < interval_f.to


\* The distance of the two timestamps of the table around b; before the
\* first and after the last timestamp, the distance nearest to b.
InterFrame(b) ==
    LET n == Len(times)
        lo == Cardinality({ j \in 1..n : times[j] <= b })
        k == IF lo = 0 THEN 1 ELSE IF lo = n THEN n - 1 ELSE lo
    IN  times[k + 1] - times[k]

\* time_to_frame and then frame_to_time give a timestamp less than one
\* inter-frame interval away from b.
RoundTripNear(b) ==
    LET f == time_to_frame(b)
    IN  /\ f.some
        /\ frame_to_time(f.v).some
        /\ frame_to_time(f.v).v - b < InterFrame(b)
        /\ b - frame_to_time(f.v).v < InterFrame(b)

\* The media has a table of at least two frames and extract_interval has
\* converted its interval.
Converted == Len(times) >= 2 /\ p_pc # "start"

\* C24 as stated: for a media with a strictly increasing frame table and
\* every timestamp b, frame_to_time(time_to_frame(b)) succeeds and is less
\* than one inter-frame interval away from b.
C24_RoundTripNearEveryTimestamp ==
    Converted => \A b \in SmallTimes : RoundTripNear(b)

\* C24: the same for every timestamp b from the first to the last
\* timestamp of the table.
C24_RoundTripNearWithinTable ==
    Converted =>
        \A b \in SmallTimes :
            (times[1] <= b /\ b <= times[Len(times)]) => RoundTripNear(b)

\* A time interval whose boundaries lie between two timestamps of the
\* table has been converted to frames and its sub intervals back to times.
C24_Witness ==
    /\ Converted
    /\ interval.kind = "time"
    /\ \A j \in 1..Len(times) : times[j] # interval.from
    /\ times[1] < interval.from
    /\ interval.from < interval.to
    /\ interval.to < times[Len(times)]
    /\ p_result = "ok"
    /\ \E k \in 1..Len(plan) : plan[k].frames.some

\* C25: key_frame_greater_or_equal_until_limit(f, limit) returns for
\* f <= limit the least key frame k with f <= k <= limit, None when there
\* is none, and panics for limit < f.
C25_LeastKeyFrameUpToLimit ==
    (has_frames /\ p_pc # "start") =>
        \A f \in SmallFrames, limit \in SmallFrames :
            LET r == key_frame_greater_or_equal_until_limit(f, limit)
                S == { k \in KeyFrameSet : f <= k /\ k <= limit }
            IN  IF limit < f THEN ~r.some /\ r # Nothing
                ELSE r = IF S = {} THEN Nothing ELSE Some(MinOf(S))

\* C26: key_frame_less_or_equal_until_limit(f, limit) returns for
\* limit <= f the greatest key frame k with limit <= k <= f, None when
\* there is none, and panics for limit > f.
C26_GreatestKeyFrameDownToLimit ==
    (has_frames /\ p_pc # "start") =>
        \A f \in SmallFrames, limit \in SmallFrames :
            LET r == key_frame_less_or_equal_until_limit(f, limit)
                S == { k \in KeyFrameSet : limit <= k /\ k <= f }
            IN  IF limit > f THEN ~r.some /\ r # Nothing
                ELSE r = IF S = {} THEN Nothing ELSE Some(MaxOf(S))

\* to_key_frames has taken the upper end from
\* key_frame_less_or_equal_until_limit, a key frame below the interval's
\* last frame, while a key frame lies below the interval.
C26_Witness ==
    /\ KeyFramesComputed
    /\ interval_kf.some
    /\ interval_kf.v.to < interval_f.to
    /\ \E k \in KeyFrameSet : k < interval_f.from

\* The frames of the k-th sub segment: the frames from the one at its first
\* to the one at its last timestamp, as handed to ffmpeg.
FrameRange(k) ==
    LET f == to_frames(plan[k].time).v
    IN  f.from..f.to

MaxHeaders == 2
MaxRating == 2

Option(S) == {Nothing} \cup { Some(x) : x \in S }

\* impl Ord for ProviderHeader
ProviderHeader_cmp(self, other) ==
    IF self.rating < other.rating THEN "Less"
    ELSE IF self.rating > other.rating THEN "Greater"
    ELSE "Equal"

\* headers.sort(): a stable sort by ProviderHeader_cmp, written as the
\* insertion of each element behind the elements that are not greater.
RECURSIVE sort_headers(_)
sort_headers(hs) ==
    IF hs = <<>> THEN <<>>
    ELSE LET sorted == sort_headers(SubSeq(hs, 1, Len(hs) - 1))
             x == hs[Len(hs)]
             n == Cardinality({ i \in 1..Len(sorted) :
                                 ProviderHeader_cmp(sorted[i], x) # "Greater" })
         IN  SubSeq(sorted, 1, n) \o <<x>> \o SubSeq(sorted, n + 1, Len(sorted))

\* headers_from_provider for a response that was received and parsed: the
\* loop of lines 208-246 pushes a ProviderHeader (id, rating) for the
\* elements without errors that reach the minimum rating, and the vector
\* is sorted.  The rating defaults to 0.
headers_from_provider(raw, min_rating) ==
    LET rating(rh) == IF rh.rating.some THEN rh.rating.v
                      ELSE IF rh.rating_by_author.some
                           THEN rh.rating_by_author.v
                           ELSE 0
        pushed == SelectSeq([i \in 1..Len(raw) |-> i],
                    LAMBDA i :
                        /\ raw[i].errors.some
                        /\ ~ (raw[i].errors.v > 0)
                        /\ ~ (min_rating.some /\ rating(raw[i]) < min_rating.v))
    IN  sort_headers([n \in 1..Len(pushed) |->
                        [id |-> pushed[n], rating |-> rating(raw[pushed[n]])]])

\* Cutlist::has_frame_intervals, Cutlist::has_time_intervals.  A validated
\* cut list is given by the number of intervals of each view it has.
has_frame_intervals(cl) == "Frames" \in DOMAIN cl
has_time_intervals(cl) == "Time" \in DOMAIN cl

\* cut_with_cutlist_from_provider_auto_select, lines 243-249: any failure of
\* headers_from_provider (no response, empty response, no XML) is NoCutlist.
\* raw is the vector of the <cutlist> elements of the provider's answer.
\* rating, ratingbyauthor and errors are strings: each is given by the
\* number it parses to, or None.  The id is the element's position.
HeadersFromProvider ==
    /\ c_pc = "headers"
    /\ \/ /\ c_result' = "no_cutlist"
          /\ c_pc' = "done"
          /\ UNCHANGED headers
       \/ \E raw \in UNION { [1..n -> [rating : Option(0..MaxRating),
                                       rating_by_author : Option({MaxRating}),
                                       errors : Option(0..1)]] :
                               n \in 0..MaxHeaders },
             min_rating \in Option(1..MaxRating) :
            /\ headers' = headers_from_provider(raw, min_rating)
            /\ c_pc' = "select"
            /\ UNCHANGED c_result
    /\ UNCHANGED <<h_next, tried, c_cutlist, metadata, view, attempts,
                   cutting_dir, n_extracted, call_result>>
    /\ UNCHANGED <<decVars, valVars, planVars, drvVars, keyVars, iniVars, strVars>>

\* Lines 253-254 and 277-293: the loop takes the next header and retrieves
\* its cut list; after the last header the video is not cut.
NextHeader ==
    /\ c_pc = "select"
    /\ IF h_next < Len(headers)
       THEN /\ h_next' = h_next + 1
            /\ \/ /\ tried' = Append(tried,
                        [id |-> headers[h_next + 1].id, ok |-> FALSE])
                  /\ UNCHANGED <<c_cutlist, c_pc>>
               \/ \E cl \in { l \in UNION { [D -> 1..MaxCuts] :
                                             D \in (SUBSET Kinds) \ {{}} } :
                                \A j, k \in DOMAIN l : l[j] = l[k] } :
                    /\ c_cutlist' = Some(cl)
                    /\ c_pc' = "metadata"
                    /\ UNCHANGED tried
            /\ UNCHANGED c_result
       ELSE /\ c_result' = "err"
            /\ c_pc' = "done"
            /\ UNCHANGED <<h_next, tried, c_cutlist>>
    /\ UNCHANGED <<headers, metadata, view, attempts, cutting_dir,
                   n_extracted, call_result>>
    /\ UNCHANGED <<decVars, valVars, planVars, drvVars, keyVars, iniVars, strVars>>

\* cut_with_cutlist, line 312
ReadMetadata ==
    /\ c_pc = "metadata"
    /\ \/ /\ call_result' = "err"
          /\ c_pc' = "returned"
          /\ UNCHANGED metadata
       \/ \E hf \in BOOLEAN :
            /\ metadata' = Some([has_frames |-> hf])
            /\ c_pc' = "frames"
            /\ UNCHANGED call_result
    /\ UNCHANGED <<headers, h_next, tried, c_cutlist, view, attempts,
                   cutting_dir, n_extracted, c_result>>
    /\ UNCHANGED <<decVars, valVars, planVars, drvVars, keyVars, iniVars, strVars>>

\* cut_with_cutlist, lines 318-326, without the test of has_frames()
TryFramesWhateverTheMedia ==
    /\ c_pc = "frames"
    /\ IF has_frame_intervals(c_cutlist.v)
       THEN view' = "Frames" /\ c_pc' = "create"
       ELSE c_pc' = "time" /\ UNCHANGED view
    /\ UNCHANGED <<headers, h_next, tried, c_cutlist, metadata, attempts,
                   cutting_dir, n_extracted, call_result, c_result>>
    /\ UNCHANGED <<decVars, valVars, planVars, drvVars, keyVars, iniVars, strVars>>

\* cut_with_cutlist, lines 318-326
TryFrames ==
    /\ c_pc = "frames"
    /\ IF has_frame_intervals(c_cutlist.v) /\ metadata.v.has_frames
       THEN view' = "Frames" /\ c_pc' = "create"
       ELSE c_pc' = "time" /\ UNCHANGED view
    /\ UNCHANGED <<headers, h_next, tried, c_cutlist, metadata, attempts,
                   cutting_dir, n_extracted, call_result, c_result>>
    /\ UNCHANGED <<decVars, valVars, planVars, drvVars, keyVars, iniVars, strVars>>

\* cut_with_cutlist, lines 341-347 and 360
TryTime ==
    /\ c_pc = "time"
    /\ IF has_time_intervals(c_cutlist.v)
       THEN view' = "Time" /\ c_pc' = "create" /\ UNCHANGED call_result
       ELSE call_result' = "err" /\ c_pc' = "returned" /\ UNCHANGED view
    /\ UNCHANGED <<headers, h_next, tried, c_cutlist, metadata, attempts,
                   cutting_dir, n_extracted, c_result>>
    /\ UNCHANGED <<decVars, valVars, planVars, drvVars, keyVars, iniVars, strVars>>

\* cut_with_cutlist, lines 321-337 and 342-357: what follows the return of
\* ffmpeg::cut.
CutReturns(outcome, created) ==
    /\ attempts' = Append(attempts,
            [view |-> view, outcome |-> outcome, created |-> created])
    /\ IF outcome = "ok" THEN call_result' = "ok" /\ c_pc' = "returned"
       ELSE IF view = "Frames" THEN c_pc' = "time" /\ UNCHANGED call_result
       ELSE call_result' = "err" /\ c_pc' = "returned"

\* fs::remove_dir in place of fs::remove_dir_all
remove_dir(dir) == IF dir.v = 0 THEN Nothing ELSE dir

\* The defer! block of ffmpeg::cut
remove_dir_all(dir) == Nothing

\* ffmpeg::cut, line 93, with create_cutting_dir
CreateCuttingDir ==
    /\ c_pc = "create"
    /\ \/ /\ cutting_dir' = Some(0)
          /\ n_extracted' = 0
          /\ c_pc' = "extract"
          /\ UNCHANGED <<attempts, call_result>>
       \/ /\ CutReturns("err", FALSE)
          /\ UNCHANGED <<cutting_dir, n_extracted>>
    /\ UNCHANGED <<headers, h_next, tried, c_cutlist, metadata, view,
                   c_result>>
    /\ UNCHANGED <<decVars, valVars, planVars, drvVars, keyVars, iniVars, strVars>>

\* ffmpeg::cut, lines 103-109: extract_interval writes one to three part
\* files, or fails after some of them.
ExtractInterval ==
    /\ c_pc = "extract"
    /\ IF n_extracted < c_cutlist.v[view]
       THEN \/ \E parts \in 1..Cardinality({"Pre", "Main", "Post"}) :
                 /\ cutting_dir' = Some(cutting_dir.v + parts)
                 /\ n_extracted' = n_extracted + 1
                 /\ UNCHANGED <<attempts, call_result, c_pc>>
            \/ \E parts \in 0..(Cardinality({"Pre", "Main", "Post"}) - 1) :
                 /\ cutting_dir' = remove_dir_all(Some(cutting_dir.v + parts))
                 /\ CutReturns("err", TRUE)
                 /\ UNCHANGED n_extracted
       ELSE /\ c_pc' = "concat"
            /\ UNCHANGED <<cutting_dir, n_extracted, attempts, call_result>>
    /\ UNCHANGED <<headers, h_next, tried, c_cutlist, metadata, view,
                   c_result>>
    /\ UNCHANGED <<decVars, valVars, planVars, drvVars, keyVars, iniVars, strVars>>

\* ffmpeg::cut, line 112, with concatenate_intervals: no part file is an
\* error, one part file is renamed to out_video, more are concatenated.
ConcatenateIntervals ==
    /\ c_pc = "concat"
    /\ \/ /\ cutting_dir.v = 0
          /\ cutting_dir' = remove_dir_all(cutting_dir)
          /\ CutReturns("err", TRUE)
       \/ /\ cutting_dir.v = 1
          /\ \/ /\ cutting_dir' = remove_dir_all(Some(0))
                /\ CutReturns("ok", TRUE)
             \/ /\ cutting_dir' = remove_dir_all(cutting_dir)
                /\ CutReturns("err", TRUE)
       \/ /\ cutting_dir.v > 1
          /\ cutting_dir' = remove_dir_all(cutting_dir)
          /\ \E ffmpeg_ok \in BOOLEAN :
                CutReturns(IF ffmpeg_ok THEN "ok" ELSE "err", TRUE)
    /\ UNCHANGED <<headers, h_next, tried, c_cutlist, metadata, view,
                   n_extracted, c_result>>
    /\ UNCHANGED <<decVars, valVars, planVars, drvVars, keyVars, iniVars, strVars>>

\* cut_with_cutlist_from_provider_auto_select, lines 256-275: the first
\* cut list that cuts the video ends the loop.
CutWithCutlistReturns ==
    /\ c_pc = "returned"
    /\ tried' = Append(tried,
            [id |-> headers[h_next].id, ok |-> call_result = "ok"])
    /\ IF call_result = "ok"
       THEN c_result' = "ok" /\ c_pc' = "done"
       ELSE c_pc' = "select" /\ UNCHANGED c_result
    /\ c_cutlist' = Nothing
    /\ metadata' = Nothing
    /\ view' = "none"
    /\ attempts' = <<>>
    /\ call_result' = "none"
    /\ UNCHANGED <<headers, h_next, cutting_dir, n_extracted>>
    /\ UNCHANGED <<decVars, valVars, planVars, drvVars, keyVars, iniVars, strVars>>

NextCut ==
    \/ HeadersFromProvider
    \/ NextHeader
    \/ ReadMetadata
    \/ TryFrames
    \/ TryTime
    \/ CreateCuttingDir
    \/ ExtractInterval
    \/ ConcatenateIntervals
    \/ CutWithCutlistReturns

CutInit ==
    /\ headers = <<>>
    /\ h_next = 0
    /\ tried = <<>>
    /\ c_cutlist = Nothing
    /\ metadata = Nothing
    /\ view = "none"
    /\ attempts = <<>>
    /\ cutting_dir = Nothing
    /\ n_extracted = 0
    /\ call_result = "none"
    /\ c_pc = "headers"
    /\ c_result = "none"
    /\ IdleDecode /\ IdleValidate /\ IdlePlan /\ IdleLate("cut")

SpecCut == CutInit /\ [][NextCut]_vars

(***************************************************************************)
(* Properties of cutting with a cut list, checked under SpecCut.           *)
(***************************************************************************)
Attempted(v) == \E i \in 1..Len(attempts) : attempts[i].view = v

Failed(v) ==
    \E i \in 1..Len(attempts) :
        attempts[i].view = v /\ attempts[i].outcome = "err"

\* The frame view comes first and only for a list with frame intervals and
\* a media with frames; the time view only for a list with time intervals
\* and only after no attempt or a failed frame attempt.
ViewOrder ==
    /\ Len(attempts) <= 2
    /\ \A i \in 1..Len(attempts) :
        /\ attempts[i].view = "Frames" =>
            /\ i = 1
            /\ has_frame_intervals(c_cutlist.v)
            /\ metadata.some /\ metadata.v.has_frames
        /\ attempts[i].view = "Time" =>
            /\ has_time_intervals(c_cutlist.v)
            /\ i = 2 => attempts[1].view = "Frames"
                        /\ attempts[1].outcome = "err"

\* What cut_with_cutlist returns, given the attempts it made.
ResultAfterAllViews ==
    /\ call_result = "ok" <=>
        /\ attempts # <<>>
        /\ attempts[Len(attempts)].outcome = "ok"
    /\ call_result = "err" =>
        /\ (has_frame_intervals(c_cutlist.v)
            /\ metadata.some /\ metadata.v.has_frames) => Failed("Frames")
        /\ has_time_intervals(c_cutlist.v) => Failed("Time")

\* C11 as stated: cutting with a cut list tries the frame intervals first,
\* only when the list has them and the media has frames; when that attempt
\* fails or is not possible and the list has time intervals it retries with
\* those; an error is returned only after every available view has failed,
\* and the time view is never tried after a successful frame attempt.
C11_ErrorOnlyAfterEveryView ==
    c_pc = "returned" => ViewOrder /\ ResultAfterAllViews

\* C11, amended: when the metadata of the video cannot be read, an error is
\* returned and no view is tried; otherwise the views are tried in the
\* order frames, time as stated, and an error is returned only after every
\* available view has failed.
C11_FramesThenTimeOnceMetadataIsRead ==
    /\ c_pc \in {"frames", "time", "create", "extract", "concat"} => ViewOrder
    /\ c_pc = "returned" =>
        IF metadata.some
        THEN ViewOrder /\ ResultAfterAllViews
        ELSE attempts = <<>> /\ call_result = "err"

\* The frame attempt failed and the time attempt cut the video.
C11_Witness ==
    /\ c_pc = "returned"
    /\ call_result = "ok"
    /\ Len(attempts) = 2
    /\ attempts[1].view = "Frames" /\ attempts[1].outcome = "err"
    /\ attempts[2].view = "Time"

Rating(id) ==
    LET h == CHOOSE j \in 1..Len(headers) : headers[j].id = id
    IN  headers[h].rating

\* C20: in auto-select mode a candidate is tried only after every
\* candidate with a strictly higher rating has been tried and has failed.
C20_TriedInDescendingRating ==
    \A i \in 1..Len(tried) : \A h \in 1..Len(headers) :
        headers[h].rating > Rating(tried[i].id) =>
            \E j \in 1..(i - 1) :
                tried[j].id = headers[h].id /\ ~tried[j].ok


(***************************************************************************)
(* File names, keys and paths (src/video/mod.rs).  A file name is the      *)
(* sequence of its components between the dots.  The first component       *)
(* stands for the part up to _TVOON_DE, the dots of its date included; a   *)
(* first component outside Bases does not have that form.  No component    *)
(* but "cut" ends in cut, none but "mpg" starts with mpg.  A path is a     *)
(* directory of the working tree, or Elsewhere, and a file name.           *)
(***************************************************************************)
MaxParts == 4

Bases == {"A", "B"}

Path(dir, name) == [dir |-> dir, name |-> name]

\* RE_CUT_VIDEO: group 1 and group 2, or None without a match.  Group 2
\* needs a "cut." with something behind it.
RE_CUT_VIDEO(name) ==
    IF /\ Len(name) >= 3
       /\ name[1] \in Bases
       /\ \E i \in 2..(Len(name) - 1) : name[i] = "cut"
    THEN Some([key |-> name[1], rest |-> Tail(name)])
    ELSE Nothing

\* RE_UNCUT_VIDEO: group 1 and the groups fmt, ext and encext, or None
\* without a match.  The optional groups match when they can.
RE_UNCUT_VIDEO(name) ==
    LET n == Len(name) - 1
        fmt == {"HQ", "HD"}
        caps(f, x, enc) ==
            Some([key |-> name[1], fmt |-> f, ext |-> x, encext |-> enc])
    IN  IF n < 2 \/ name[1] \notin Bases THEN Nothing
        ELSE IF n = 2 THEN caps(Nothing, name[3], FALSE)
        ELSE IF n = 3 /\ name[3] \in fmt
             THEN caps(Some(name[3]), name[4], FALSE)
        ELSE IF n = 3 /\ name[4] = "otrkey"
             THEN caps(Nothing, name[3], TRUE)
        ELSE IF n = 4 /\ name[3] \in fmt /\ name[5] = "otrkey"
             THEN caps(Some(name[3]), name[4], TRUE)
        ELSE Nothing

\* str::replace("cut.", ""): drops each component cut that has a component
\* behind it.
RECURSIVE replace_cut_dot(_)
replace_cut_dot(parts) ==
    IF Len(parts) <= 1 THEN parts
    ELSE IF Head(parts) = "cut" THEN replace_cut_dot(Tail(parts))
    ELSE <<Head(parts)>> \o replace_cut_dot(Tail(parts))

\* str::replace(".mpg", ""): drops each component mpg that has a component
\* in front of it.
RECURSIVE replace_dot_mpg(_)
replace_dot_mpg(parts) ==
    IF Len(parts) <= 1 THEN parts
    ELSE LET init == replace_dot_mpg(SubSeq(parts, 1, Len(parts) - 1))
         IN  IF parts[Len(parts)] = "mpg" THEN init
             ELSE Append(init, parts[Len(parts)])

\* Video::new for the path of a file that exists.  A key is the sequence
\* of the components of the key string.
Video_new(path) ==
    LET cut == RE_CUT_VIDEO(path.name)
        uncut == RE_UNCUT_VIDEO(path.name)
        Video(p, k, s) == [p |-> p, k |-> k, s |-> s, e |-> Nothing]
    IN  IF cut.some
        THEN Some(Video(path,
                <<cut.v.key>> \o replace_dot_mpg(replace_cut_dot(cut.v.rest)),
                "Cut"))
        ELSE IF uncut.some
        THEN Some(Video(path,
                <<uncut.v.key>>
                    \o (IF uncut.v.fmt.some THEN <<uncut.v.fmt.v>> ELSE <<>>)
                    \o <<uncut.v.ext>>,
                IF uncut.v.encext THEN "Encoded" ELSE "Decoded"))
        ELSE Nothing

\* Video::next_path: with_extension replaces the last component.
next_path(self) ==
    LET name == self.p.name
        stem == SubSeq(name, 1, Len(name) - 1)
    IN  IF self.s = "Encoded" THEN Path("Decoded", stem)
        ELSE IF self.s = "Decoded"
        THEN Path("Cut", stem \o <<"cut", name[Len(name)]>>)
        ELSE self.p

(***************************************************************************)
(* One recording over several runs: each run classifies the file with      *)
(* Video::new, a stage writes the file at next_path, and the next run      *)
(* classifies that file.                                                   *)
(***************************************************************************)
\* collect: Video::new for the file of the recording
KeyNew ==
    /\ k_video = Nothing
    /\ k_video' = Video_new(Path("Root", k_name))
    /\ k_video'.some
    /\ k_log' = Append(k_log, [s |-> k_video'.v.s, k |-> k_video'.v.k])
    /\ UNCHANGED k_name
    /\ UNCHANGED <<decVars, valVars, planVars, cutVars, drvVars, iniVars, strVars>>

\* _decode and _cut: the stage writes its result to next_path
KeyNextStage ==
    /\ k_video.some
    /\ k_video.v.s # "Cut"
    /\ k_name' = next_path(k_video.v).name
    /\ k_video' = Nothing
    /\ UNCHANGED k_log
    /\ UNCHANGED <<decVars, valVars, planVars, cutVars, drvVars, iniVars, strVars>>

NextKey == KeyNew \/ KeyNextStage

KeyInit ==
    /\ k_name \in
         { <<b>> \o parts :
             b \in Bases,
             parts \in UNION { [1..n -> {"mpg", "HQ", "HD", "avi", "cut", "otrkey"}] :
                                n \in 1..MaxParts } }
    /\ k_video = Nothing
    /\ k_log = <<>>
    /\ IdleDecode /\ IdleValidate /\ IdlePlan /\ IdleLate("key")

SpecKey == KeyInit /\ [][NextKey]_vars

\* C18: the key derived from an Encoded file name, the key derived from
\* the Decoded file name produced from it and the key derived from the Cut
\* file name produced from that are equal.
C18_KeyStableAcrossStages ==
    (k_log # <<>> /\ k_log[1].s = "Encoded") =>
        \A i \in 1..Len(k_log) : k_log[i].k = k_log[1].k


(***************************************************************************)
(* Cut lists and their INI form (src/otr-utils/src/cutting/cutlist.rs).    *)
(* Starts, ends and durations are whole numbers (frame numbers, whole      *)
(* seconds), for which the f64 arithmetic and the formatting and parsing   *)
(* of the attribute values are exact.  An INI structure has its sections   *)
(* General, Meta and Info as options and its sections Cut0, Cut1, .. as a  *)
(* sequence of attribute maps.  A Result is Some(v) for Ok(v) and Nothing   *)
(* for an error.                                                           *)
(***************************************************************************)
MaxIniCuts == 2

MaxPos == 1

item_attr_start(kind) == IF kind = "Frames" THEN "StartFrame" ELSE "Start"

item_attr_duration(kind) ==
    IF kind = "Frames" THEN "DurationFrames" ELSE "Duration"

\* Cutlist::len
Cutlist_len(self) ==
    IF is_of_kind(self, "Frames") THEN Len(self["Frames"])
    ELSE IF is_of_kind(self, "Time") THEN Len(self["Time"])
    ELSE 0

\* Cutlist::to_ini, with the sections that carry the file and the producer
\* left whole
to_ini(self) ==
    LET cut_section(i) ==
            [attr \in UNION { {item_attr_start(kind), item_attr_duration(kind)} :
                                kind \in DOMAIN self } |->
                LET kind == CHOOSE k \in DOMAIN self :
                                attr \in {item_attr_start(k), item_attr_duration(k)}
                    item == self[kind][i]
                IN  IF attr = item_attr_start(kind) THEN item.start
                    ELSE item.end - item.start]
    IN  [General |-> Some([NoOfCuts |-> Cutlist_len(self)]),
         Meta    |-> Nothing,
         Cut     |-> [i \in 1..Cutlist_len(self) |-> cut_section(i)],
         Info    |-> Some("RatingByAuthor")]

\* Item::new
Item_new(start, duration) ==
    IF duration > 0
    THEN Some([start |-> start, end |-> start + duration])
    ELSE Nothing

\* Item::from_ini for cut number cut_no, counted from 0
Item_from_ini(cutlist_ini, cut_no, kind) ==
    IF cut_no + 1 > Len(cutlist_ini.Cut) THEN Nothing
    ELSE LET cut == cutlist_ini.Cut[cut_no + 1]
         IN  IF \/ item_attr_start(kind) \notin DOMAIN cut
                \/ item_attr_duration(kind) \notin DOMAIN cut
             THEN Nothing
             ELSE Some(Item_new(cut[item_attr_start(kind)],
                                 cut[item_attr_duration(kind)]))

\* Cutlist::extend_from_ini_cut
extend_from_ini_cut(self, cutlist_ini, cut_no) ==
    LET from(kind) == Item_from_ini(cutlist_ini, cut_no, kind)
    IN  IF cut_no = 0
        THEN LET ks == { kind \in Kinds : from(kind).some /\ from(kind).v.some }
             IN  Some([kind \in ks |-> <<from(kind).v.v>>])
        ELSE IF \E kind \in DOMAIN self : ~ from(kind).some
        THEN Nothing
        ELSE Some(
                [kind \in DOMAIN self |->
                    IF from(kind).v.some
                    THEN Append(self[kind], from(kind).v.v)
                    ELSE self[kind]])

\* TryFrom<&Ini> for Cutlist.  The id the section Meta may carry is left
\* out of the cut list: the comparison of cut lists is by their items.
try_from(cutlist_ini) ==
    LET RECURSIVE extend(_, _)
        \* the loop over the cuts
        extend(self, cut_no) ==
            IF cut_no >= cutlist_ini.General.v.NoOfCuts THEN Some(self)
            ELSE LET r == extend_from_ini_cut(self, cutlist_ini, cut_no)
                 IN  IF r.some THEN extend(r.v, cut_no + 1) ELSE Nothing
    IN  IF ~ cutlist_ini.Meta.some THEN Nothing
        ELSE IF ~ cutlist_ini.General.some THEN Nothing
        ELSE LET r == extend(<<>>, 0)
             IN  IF r.some /\ Cutlist_validate(r.v) = "ok" THEN r ELSE Nothing

\* Cutlist::to_ini
ToIni ==
    /\ i_ini = Nothing
    /\ i_ini' = Some(to_ini(i_list.v))
    /\ UNCHANGED <<i_list, i_parsed>>
    /\ UNCHANGED <<decVars, valVars, planVars, cutVars, drvVars, keyVars, strVars>>

\* Cutlist::try_from(&Ini)
TryFromIni ==
    /\ i_ini.some
    /\ i_parsed = Nothing
    /\ i_parsed' = Some(try_from(i_ini.v))
    /\ UNCHANGED <<i_list, i_ini>>
    /\ UNCHANGED <<decVars, valVars, planVars, cutVars, drvVars, keyVars, strVars>>

NextIni == ToIni \/ TryFromIni

IniInit ==
    /\ i_list \in
         { Some(cl) :
             cl \in { l \in UNION { [ks -> UNION { [1..n -> [start : 0..MaxPos,
                                                               end : 0..MaxPos]] :
                                                     n \in 1..MaxIniCuts }] :
                                      ks \in SUBSET Kinds } :
                        Cutlist_validate(l) = "ok" } }
    /\ i_ini = Nothing
    /\ i_parsed = Nothing
    /\ IdleDecode /\ IdleValidate /\ IdlePlan /\ IdleLate("ini")

SpecIni == IniInit /\ [][NextIni]_vars

\* C19: parsing the INI form of a valid cut list succeeds and yields the
\* same views with the same intervals in the same order.
C19_ParseOfEmitIsTheList ==
    i_parsed.some =>
        /\ i_parsed.v.some
        /\ i_parsed.v.v = i_list.v

\* C29: an INI structure without the section Meta, with the section
\* General carrying NoOfCuts and with that many cut sections, parses
\* successfully.
C29_ParsesWithoutMeta ==
    ( /\ i_parsed.some
      /\ ~ i_ini.v.Meta.some
      /\ i_ini.v.General.some
      /\ Len(i_ini.v.Cut) = i_ini.v.General.v.NoOfCuts )
        => i_parsed.v.some


(***************************************************************************)
(* The pipeline driver (src/main.rs, src/video/collecting.rs,              *)
(* src/video/mod.rs).  The working sub directories carry the names of the  *)
(* statuses, Archive is the archive directory, and Elsewhere stands for    *)
(* any other directory, the root of the working tree included.  The paths  *)
(* in_videos are the command line paths or, without any, the listing of    *)
(* the root and the working sub directories.                               *)
(***************************************************************************)
MaxInputs == 3

\* Key is a String with the derived order: byte-wise.  The upper case
\* letters precede the lower case ones, and a dot precedes both.
RECURSIVE Key_lt(_, _)
Key_lt(a, b) ==
    LET order == <<"A", "B", "HD", "HQ", "avi", "cut", "mpg", "notes",
                   "otrkey", "txt">>
        rank(t) == CHOOSE i \in 1..Len(order) : order[i] = t
    IN  IF b = <<>> THEN FALSE
        ELSE IF a = <<>> THEN TRUE
        ELSE IF Head(a) = Head(b) THEN Key_lt(Tail(a), Tail(b))
        ELSE rank(Head(a)) < rank(Head(b))

\* Status::partial_cmp
Status_partial_cmp(self, other) ==
    IF self = other THEN "Equal"
    ELSE IF self = "Cut" \/ (self = "Decoded" /\ other = "Encoded")
    THEN "Greater"
    ELSE "Less"

\* Iterator::next for Status
Status_next(self) ==
    IF self = "Encoded" THEN Some("Decoded")
    ELSE IF self = "Decoded" THEN Some("Cut")
    ELSE Nothing

\* Ord for Video with the status ascending
Video_cmp_status_ascending(self, other) ==
    IF Key_lt(self.k, other.k) THEN "Less"
    ELSE IF Key_lt(other.k, self.k) THEN "Greater"
    ELSE Status_partial_cmp(self.s, other.s)

\* Ord for Video: by key ascending, then by status descending
Video_cmp(self, other) ==
    IF Key_lt(self.k, other.k) THEN "Less"
    ELSE IF Key_lt(other.k, self.k) THEN "Greater"
    ELSE IF Status_partial_cmp(self.s, other.s) = "Greater" THEN "Less"
    ELSE IF Status_partial_cmp(self.s, other.s) = "Less" THEN "Greater"
    ELSE "Equal"

\* Vec::sort is stable: an entry goes behind the entries that are not
\* greater.  An entry is a video with the path it was given as.
RECURSIVE sort_videos(_)
sort_videos(entries) ==
    IF entries = <<>> THEN <<>>
    ELSE LET sorted == sort_videos(SubSeq(entries, 1, Len(entries) - 1))
             x == entries[Len(entries)]
             n == Cardinality({ i \in 1..Len(sorted) :
                                 Video_cmp(sorted[i].v, x.v) # "Greater" })
         IN  SubSeq(sorted, 1, n) \o <<x>> \o SubSeq(sorted, n + 1, Len(sorted))

\* the iterator without dedup_by
dedup_none(vs) == [i \in 1..Len(vs) |-> i]

\* dedup_by(|v1, v2| v1.key() == v2.key()): the indices of the videos it
\* yields, the first of every run of equal keys
dedup_by(vs) ==
    SelectSeq([i \in 1..Len(vs) |-> i],
              LAMBDA i : i = 1 \/ vs[i].k # vs[i - 1].k)

FsOp(op, path, to, phase) ==
    [op |-> op, path |-> path, to |-> to, phase |-> phase]

\* The loop of collect over the paths from path i on, move_to_working_dir
\* included.  fail_at is the path whose rename fails, 0 for none.
RECURSIVE collect_loop(_, _, _, _, _, _)
collect_loop(paths, i, d, entries, log, fail_at) ==
    IF i > Len(paths)
    THEN [ok |-> TRUE, disk |-> d, entries |-> entries, log |-> log]
    ELSE LET path == paths[i]
             video == Video_new(path)
         IN  IF path \notin d \/ ~ video.some
             THEN collect_loop(paths, i + 1, d, entries, log, fail_at)
             ELSE LET target == Path(video.v.s, path.name)
                  IN  IF path.dir = target.dir
                      THEN collect_loop(paths, i + 1, d,
                              Append(entries, [from |-> path, v |-> video.v]),
                              log, fail_at)
                      ELSE IF fail_at = i
                      THEN [ok |-> FALSE, disk |-> d, entries |-> entries,
                            log |-> log]
                      ELSE collect_loop(paths, i + 1,
                              (d \ {path}) \cup {target},
                              Append(entries,
                                     [from |-> path,
                                      v |-> [video.v EXCEPT !.p = target]]),
                              Append(log,
                                     FsOp("rename", path, target, "collect")),
                              fail_at)

\* process_videos up to dedup_by: collect with its moves and its sort.  An
\* error of collect leaves process_videos through the ? and main exits
\* with 1.
Collect ==
    /\ d_pc = "collect"
    /\ \E fail_at \in 0..Len(in_videos) :
         LET r == collect_loop(in_videos, 1, disk, <<>>, <<>>, fail_at)
             sorted == sort_videos(r.entries)
             vs == [i \in 1..Len(sorted) |-> sorted[i].v]
         IN  /\ disk' = r.disk
             /\ fs_log' = r.log
             /\ IF r.ok
                THEN /\ videos' = vs
                     /\ origin' = sorted
                     /\ kept' = dedup_by(vs)
                     /\ d_pc' = IF vs = <<>> THEN "cut" ELSE "decode"
                     /\ UNCHANGED exit_code
                ELSE /\ d_pc' = "collect_err"
                     /\ exit_code' = "1"
                     /\ UNCHANGED <<videos, origin, kept>>
    /\ UNCHANGED <<command, in_videos, d_idx, cut_done, cut_running, stage_log>>
    /\ UNCHANGED <<decVars, valVars, planVars, cutVars, keyVars, iniVars, strVars>>

\* Video::change_to_next_status
change_to_next_status(self) ==
    IF Status_next(self.s).some
    THEN [self EXCEPT !.p = next_path(self), !.s = Status_next(self.s).v]
    ELSE self

\* The decode closure for the next surviving video: Video::decode with an
\* outcome of decoding::decode.
\*   ok          the output is written and the encoded file removed
\*   err         an error before the output file is created, missing
\*               access data included
\*   err_late    an error after the output file is created: it is removed
\*   err_remove  the encoded file cannot be removed after the decoding
\*   panic       decode panics: the run ends there
DecodeVideo ==
    /\ d_pc = "decode"
    /\ LET i == kept[d_idx + 1]
           video == videos[i]
           out == next_path(video)
           failed == [video EXCEPT !.e = Some("err")]
           onwards == IF d_idx + 1 = Len(kept) THEN "cut" ELSE "decode"
       IN  IF ~ (command \in {"decode", "process"} /\ video.s = "Encoded")
           THEN /\ d_pc' = onwards
                /\ UNCHANGED <<videos, disk, fs_log, stage_log, exit_code>>
           ELSE \E outcome \in {"ok", "err", "err_late", "err_remove", "panic"} :
                  /\ videos' = [videos EXCEPT ![i] =
                        IF outcome = "ok" THEN change_to_next_status(video)
                        ELSE IF outcome = "panic" THEN video
                        ELSE failed]
                  /\ disk' =
                        IF outcome = "ok" THEN (disk \ {video.p}) \cup {out}
                        ELSE IF outcome = "err_remove" THEN disk \cup {out}
                        ELSE disk
                  /\ fs_log' = fs_log \o
                        (IF outcome \in {"ok", "err_late", "err_remove"}
                         THEN <<FsOp("create", out, out, "decode")>>
                         ELSE <<>>) \o
                        (IF outcome = "ok"
                         THEN <<FsOp("remove", video.p, video.p, "decode")>>
                         ELSE IF outcome = "err_late"
                         THEN <<FsOp("remove", out, out, "decode")>>
                         ELSE <<>>)
                  /\ stage_log' = Append(stage_log,
                        [v |-> i, stage |-> "decode", outcome |-> outcome,
                         before |-> video, after |-> videos'[i],
                         produced |-> out \in disk'])
                  /\ IF outcome = "panic"
                     THEN d_pc' = "exit" /\ exit_code' = "panic"
                     ELSE d_pc' = onwards /\ UNCHANGED exit_code
    /\ d_idx' = d_idx + 1
    /\ UNCHANGED <<command, in_videos, origin, kept, cut_done, cut_running>>
    /\ UNCHANGED <<decVars, valVars, planVars, cutVars, keyVars, iniVars, strVars>>

\* The cut closure taken up by a thread before every decode closure has
\* come to its end.
CutBeginEarly ==
  \E n \in (1..Len(kept)) \ (cut_done \cup cut_running) :
    /\ d_pc \in {"decode", "cut"}
    /\ cut_running' = cut_running \cup {n}
    /\ UNCHANGED <<command, disk, in_videos, videos, origin, kept, d_idx,
                   cut_done, fs_log, stage_log, d_pc, exit_code>>
    /\ UNCHANGED <<decVars, valVars, planVars, cutVars, keyVars, iniVars, strVars>>

\* into_par_iter().map(..): the cut closure of a surviving video n is
\* taken up by a thread of the pool, whatever other closures are running.
CutBegin ==
  \E n \in (1..Len(kept)) \ (cut_done \cup cut_running) :
    /\ d_pc = "cut"
    /\ cut_running' = cut_running \cup {n}
    /\ UNCHANGED <<command, disk, in_videos, videos, origin, kept, d_idx,
                   cut_done, fs_log, stage_log, d_pc, exit_code>>
    /\ UNCHANGED <<decVars, valVars, planVars, cutVars, keyVars, iniVars, strVars>>

\* The cut closure for a surviving video n comes to its end: Video::cut
\* with an outcome of cutting::cut.
\*   ok          the video is cut
\*   submit_err  CutlistSubmissionFailed: the video is cut
\*   err         Any, Default or NoCutlist
\* archived: the rename into the archive directory works.
CutVideo ==
  \E n \in cut_running :
    /\ d_pc = "cut"
    /\ LET i == kept[n]
           video == videos[i]
           out == next_path(video)
           archive == Path("Archive", video.p.name)
       IN  IF ~ (command \in {"cut", "process"} /\ video.s = "Decoded")
           THEN UNCHANGED <<videos, disk, fs_log, stage_log>>
           ELSE \E outcome \in {"ok", "submit_err", "err"}, archived \in BOOLEAN :
                  /\ outcome = "err" => ~ archived
                  /\ videos' = [videos EXCEPT ![i] =
                        IF outcome = "ok" THEN change_to_next_status(video)
                        ELSE IF outcome = "submit_err"
                        THEN [change_to_next_status(video) EXCEPT
                                !.e = Some("err")]
                        ELSE [video EXCEPT !.e = Some("err")]]
                  /\ disk' =
                        IF outcome = "err" THEN disk
                        ELSE IF archived
                        THEN (disk \ {video.p}) \cup {out, archive}
                        ELSE disk \cup {out}
                  /\ fs_log' = fs_log \o
                        (IF outcome = "err" THEN <<>>
                         ELSE <<FsOp("create", out, out, "cut")>>) \o
                        (IF archived
                         THEN <<FsOp("rename", video.p, archive, "cut")>>
                         ELSE <<>>)
                  /\ stage_log' = Append(stage_log,
                        [v |-> i, stage |-> "cut", outcome |-> outcome,
                         before |-> video, after |-> videos'[i],
                         produced |-> out \in disk'])
    /\ cut_done' = cut_done \cup {n}
    /\ cut_running' = cut_running \ {n}
    /\ UNCHANGED <<command, in_videos, origin, kept, d_idx, d_pc, exit_code>>
    /\ UNCHANGED <<decVars, valVars, planVars, cutVars, keyVars, iniVars, strVars>>

\* The fold over the surviving videos, and main's exit status
Fold ==
    /\ d_pc = "cut"
    /\ cut_done = 1..Len(kept)
    /\ d_pc' = "exit"
    /\ exit_code' = IF \E n \in 1..Len(kept) : videos[kept[n]].e.some
                    THEN "1" ELSE "0"
    /\ UNCHANGED <<command, disk, in_videos, videos, origin, kept, d_idx,
                   cut_done, cut_running, fs_log, stage_log>>
    /\ UNCHANGED <<decVars, valVars, planVars, cutVars, keyVars, iniVars, strVars>>

NextDriver == Collect \/ DecodeVideo \/ CutBegin \/ CutVideo \/ Fold

DriverInit ==
    /\ command \in {"decode", "cut", "process"}
    /\ in_videos \in
         LET paths ==
               { Path("Elsewhere", <<"A", "mpg", "avi", "otrkey">>),
                 Path("Encoded", <<"A", "mpg", "avi", "otrkey">>),
                 Path("Elsewhere", <<"A", "mpg", "avi">>),
                 Path("Decoded", <<"A", "mpg", "avi">>),
                 Path("Cut", <<"A", "cut", "avi">>),
                 Path("Elsewhere", <<"B", "mpg", "avi", "otrkey">>),
                 Path("Decoded", <<"B", "mpg", "avi">>),
                 Path("Elsewhere", <<"notes", "txt">>) }
         IN  { ps \in UNION { [1..n -> paths] : n \in 1..MaxInputs } :
                 \A i, j \in DOMAIN ps : i # j => ps[i] # ps[j] }
    /\ disk \in { { in_videos[i] : i \in DOMAIN in_videos },
                   { in_videos[i] : i \in DOMAIN in_videos } \ {in_videos[1]} }
    /\ videos = <<>>
    /\ origin = <<>>
    /\ kept = <<>>
    /\ d_idx = 0
    /\ cut_done = {}
    /\ cut_running = {}
    /\ fs_log = <<>>
    /\ stage_log = <<>>
    /\ d_pc = "collect"
    /\ exit_code = "none"
    /\ IdleDecode /\ IdleValidate /\ IdlePlan /\ IdleLate("driver")

SpecDriver == DriverInit /\ [][NextDriver]_vars

Higher(s, t) == Status_partial_cmp(s, t) = "Greater"

Collected == d_pc \in {"decode", "cut", "exit"}

SameKey(i, j) == origin[i].v.k = origin[j].v.k

\* C13: after collection, sort and de-duplication exactly one recording
\* per key survives, none of the collected recordings with that key has a
\* higher status than it, and every call of the decode and the cut stage is
\* for a survivor.
C13_OneSurvivorPerKeyOfHighestStatus ==
    Collected =>
        /\ \A j \in 1..Len(origin) :
             /\ Cardinality({ n \in 1..Len(kept) : SameKey(kept[n], j) }) = 1
             /\ \A n \in 1..Len(kept) :
                    SameKey(kept[n], j) =>
                        ~ Higher(origin[j].v.s, origin[kept[n]].v.s)
        /\ \A c \in 1..Len(stage_log) :
             \E n \in 1..Len(kept) : kept[n] = stage_log[c].v

C13_Witness ==
    /\ d_pc = "exit"
    /\ \E i, j \in 1..Len(origin) :
         /\ SameKey(i, j)
         /\ Higher(origin[i].v.s, origin[j].v.s)
         /\ \E c \in 1..Len(stage_log) : stage_log[c].v = i
    /\ \E i, j \in 1..Len(origin) : ~ SameKey(i, j)

\* recording j was collected with a lower status than another recording
\* with its key
LowerStatus(j) ==
    \E i \in 1..Len(origin) : SameKey(i, j) /\ Higher(origin[i].v.s, origin[j].v.s)

Touches(op, path) == op.path = path \/ op.to = path

StageFailed(c) == c.outcome \notin {"ok", "submit_err"}

\* C15: a stage call changes the status of its recording only to the next
\* status and only when the output of the stage exists; when the stage
\* fails, status and path are as before and the recording carries an error.
C15_StatusForwardAndErrorRecorded ==
    \A n \in 1..Len(stage_log) :
        LET c == stage_log[n]
        IN  /\ c.after.s # c.before.s =>
                /\ Status_next(c.before.s) = Some(c.after.s)
                /\ c.produced
            /\ StageFailed(c) =>
                /\ c.after.s = c.before.s
                /\ c.after.p = c.before.p
                /\ c.after.e.some

\* the decode stage applies to surviving video number n
DecodeApplies(n) ==
    /\ command \in {"decode", "process"}
    /\ origin[kept[n]].v.s = "Encoded"

\* the cut stage applies to surviving video number n: it is a decoded video
\* when the cut closures run
CutApplies(n) ==
    /\ command \in {"cut", "process"}
    /\ \/ origin[kept[n]].v.s = "Decoded"
       \/ \E c \in 1..Len(stage_log) :
            /\ stage_log[c].v = kept[n]
            /\ stage_log[c].stage = "decode"
            /\ stage_log[c].outcome = "ok"

Attempt(n, stage) ==
    \E c \in 1..Len(stage_log) :
        stage_log[c].v = kept[n] /\ stage_log[c].stage = stage

C17_NonZeroExitIffErrorRecorded ==
    d_pc = "exit" =>
        (exit_code # "0" <=> \E n \in 1..Len(kept) : videos[kept[n]].e.some)

\* The surviving recordings that are in their cut stage: the cut closure is
\* running and calls cutting::cut.
InCut ==
    { n \in cut_running :
        command \in {"cut", "process"} /\ videos[kept[n]].s = "Decoded" }

\* C28 as stated: at no moment are two recordings in a decode or cut stage;
\* no recording is in its cut stage before the decode closures have all
\* ended, and no two recordings are in their cut stages together.
C28_OneRecordingAtATime ==
    /\ InCut # {} => d_idx = Len(kept)
    /\ Cardinality(InCut) <= 1

\* C28: recordings are decoded one at a time, and no recording is in its
\* cut stage before the decode closure of every surviving recording has
\* ended; the cut stages of different recordings may run together.
C28_DecodesEndBeforeCuts ==
    InCut # {} => (d_pc = "cut" /\ d_idx = Len(kept))

\* Two recordings are in their cut stages together, one of them decoded
\* in this run.
C28_Witness ==
    /\ Cardinality(InCut) = 2
    /\ \E c \in 1..Len(stage_log) :
          stage_log[c].stage = "decode" /\ stage_log[c].outcome = "ok"


(***************************************************************************)
(* Boundaries and intervals from strings (interval.rs, cutlist.rs).  A     *)
(* string is the sequence of its characters; "frames", "time" and "x", a   *)
(* text without digit or punctuation, stand as one character each.  A      *)
(* number read from a string is kept as its whole part s and its           *)
(* millionths u.  The f64 arithmetic of the source is exact in the model:  *)
(* the source may end one microsecond below.                               *)
(***************************************************************************)
\* str::split
RECURSIVE split(_, _)
split(s, sep) ==
    IF \A i \in 1..Len(s) : s[i] # sep THEN <<s>>
    ELSE LET i == CHOOSE k \in 1..Len(s) :
                    s[k] = sep /\ \A j \in 1..(k - 1) : s[j] # sep
         IN  <<SubSeq(s, 1, i - 1)>> \o split(SubSeq(s, i + 1, Len(s)), sep)

\* str::parse::<f64>, for decimal notation of at most six decimals
parse_f64(s) ==
    LET Digit == <<"0", "1", "2", "3", "4", "5", "6", "7", "8", "9">>
        IsDigits(d) == \A i \in 1..Len(d) : \E k \in 1..10 : Digit[k] = d[i]
        RECURSIVE val(_)
        val(d) == IF d = <<>> THEN 0
                  ELSE 10 * val(SubSeq(d, 1, Len(d) - 1))
                       + (CHOOSE k \in 0..9 : Digit[k + 1] = d[Len(d)])
        neg == s # <<>> /\ s[1] = "-"
        body == IF neg THEN Tail(s) ELSE s
        parts == split(body, ".")
        whole == parts[1]
        frac == IF Len(parts) = 2 THEN parts[2] ELSE <<>>
    IN  IF /\ Len(parts) <= 2
           /\ IsDigits(whole)
           /\ IsDigits(frac)
           /\ Len(whole) + Len(frac) > 0
           /\ Len(frac) <= 6
        THEN Some([neg |-> neg, s |-> val(whole),
                   u |-> val(frac) * 10 ^ (6 - Len(frac))])
        ELSE Nothing

\* PartialOrd of Frame and of Time: a < b
Boundary_lt(a, b) == a.s < b.s \/ (a.s = b.s /\ a.u < b.u)

\* RE_TIME: ^(\d+):([0-5]\d)+:([0-5]\d)+(\.(\d{0,6}))*$ with the text of
\* the groups hours, mins, secs, subs; a repeated group holds the text of
\* its last repetition.
RE_TIME(s) ==
    LET parts == split(s, ":")
        AllDigits(d) ==
            \A i \in 1..Len(d) :
                d[i] \in {"0", "1", "2", "3", "4", "5", "6", "7", "8", "9"}
        Pairs(d) ==
            /\ Len(d) > 0
            /\ Len(d) % 2 = 0
            /\ AllDigits(d)
            /\ \A i \in 1..Len(d) :
                i % 2 = 1 => d[i] \in {"0", "1", "2", "3", "4", "5"}
        rest == split(parts[3], ".")
        Last2(d) == SubSeq(d, Len(d) - 1, Len(d))
    IN  IF /\ Len(parts) = 3
           /\ Len(parts[1]) > 0
           /\ AllDigits(parts[1])
           /\ Pairs(parts[2])
           /\ Pairs(rest[1])
           /\ \A k \in 2..Len(rest) : AllDigits(rest[k]) /\ Len(rest[k]) <= 6
        THEN Some([hours |-> parts[1],
                   mins |-> Last2(parts[2]),
                   secs |-> Last2(rest[1]),
                   subs |-> IF Len(rest) = 1 THEN Nothing
                            ELSE Some(rest[Len(rest)])])
        ELSE Nothing

\* impl FromStr for Time.  The result is "ok" with the time, "err", or
\* "panic" when an unwrap() fails.
Time_from_str(s) ==
    LET caps == RE_TIME(s)
    IN  IF ~caps.some THEN [res |-> "err", v |-> Nothing]
        ELSE LET hours == parse_f64(caps.v.hours).v.s
                 mins == parse_f64(caps.v.mins).v.s
                 secs == parse_f64(caps.v.secs).v.s
                 subs == caps.v.subs
             IN  IF hours > 23 THEN [res |-> "err", v |-> Nothing]
                 ELSE IF subs.some /\ ~parse_f64(subs.v).some
                 THEN [res |-> "panic", v |-> Nothing]
                 ELSE [res |-> "ok",
                       v |-> [s |-> hours * 3600 + mins * 60 + secs,
                              u |-> IF subs.some
                                    THEN parse_f64(subs.v).v.s
                                         * 10 ^ (6 - Len(subs.v))
                                    ELSE 0]]

\* RE_INTERVAL: ^\[(?<from>[^\[\],]+),(?<to>[^\[\],]+)\]$
RE_INTERVAL(s) ==
    LET mid == SubSeq(s, 2, Len(s) - 1)
        parts == split(mid, ",")
    IN  IF /\ Len(s) >= 2
           /\ s[1] = "["
           /\ s[Len(s)] = "]"
           /\ \A i \in 1..Len(mid) : mid[i] \notin {"[", "]"}
           /\ Len(parts) = 2
           /\ parts[1] # <<>>
           /\ parts[2] # <<>>
        THEN Some([from |-> parts[1], to |-> parts[2]])
        ELSE Nothing

\* impl FromStr for Interval<B>, B the boundary type of kind
Interval_from_str(kind, s) ==
    LET caps == RE_INTERVAL(s)
        B_from_str(b) ==
            IF kind = "frame"
            THEN LET f == parse_f64(b)
                 IN  IF f.some
                     THEN [res |-> "ok", v |-> [s |-> f.v.s, u |-> 0]]
                     ELSE [res |-> "err", v |-> Nothing]
            ELSE Time_from_str(b)
    IN  IF ~caps.some THEN [res |-> "err", v |-> Nothing]
        ELSE LET from == B_from_str(caps.v.from)
             IN  IF from.res # "ok" THEN from
                 ELSE LET to == B_from_str(caps.v.to)
                      IN  IF to.res # "ok" THEN to
                          ELSE [res |-> "ok",
                                v |-> Interval(kind, from.v, to.v)]

\* Interval::from_start_duration
from_start_duration(kind, start, duration) ==
    Interval(kind, start,
             [s |-> start.s + duration.s + (start.u + duration.u) \div 1000000,
              u |-> (start.u + duration.u) % 1000000])

\* intervals_from_str.  Interval::len subtracts unsigned boundaries: for
\* to < from a build with overflow checks panics, one without wraps to a
\* length that is not zero.  A value chosen from a singleton set is a
\* local that is computed once.
intervals_from_str(kind, s, overflow_checks) ==
    LET RECURSIVE loop(_, _, _)
        loop(pieces, k, intervals) ==
            IF k > Len(pieces) THEN [res |-> "ok", v |-> intervals]
            ELSE CHOOSE out \in
                    { IF r.res # "ok" THEN r
                      ELSE IF Boundary_lt(r.v.to, r.v.from)
                      THEN IF overflow_checks
                           THEN [res |-> "panic", v |-> Nothing]
                           ELSE loop(pieces, k + 1, Append(intervals, r.v))
                      ELSE IF r.v.to = r.v.from
                      THEN loop(pieces, k + 1, intervals)
                      ELSE loop(pieces, k + 1, Append(intervals, r.v)) :
                      r \in {Interval_from_str(kind, pieces[k])} } : TRUE
    IN  CHOOSE out \in
            { IF /\ s # <<>>
                 /\ s[Len(s)] = "]"
                 /\ \A k \in 1..Len(pieces) : RE_INTERVAL(pieces[k]).some
              THEN loop(pieces, 1, <<>>)
              ELSE [res |-> "err", v |-> Nothing] :
              pieces \in { [k \in 1..(Len(split(s, "]")) - 1) |->
                              Append(split(s, "]")[k], "]")] } } : TRUE

\* cut_str_to_f64; the f64 is kept as its number of millionths
cut_str_to_f64(kind, cut_str) ==
    IF kind = "Frames"
    THEN LET f == parse_f64(cut_str)
         IN  IF f.some
             THEN [res |-> "ok",
                   v |-> (IF f.v.neg THEN -1 ELSE 1)
                         * (f.v.s * 1000000 + f.v.u)]
             ELSE [res |-> "err", v |-> Nothing]
    ELSE LET caps == RE_TIME(cut_str)
         IN  IF ~caps.some THEN [res |-> "err", v |-> Nothing]
             ELSE IF caps.v.subs.some /\ ~parse_f64(caps.v.subs.v).some
             THEN [res |-> "panic", v |-> Nothing]
             ELSE [res |-> "ok",
                   v |-> (parse_f64(caps.v.hours).v.s * 3600
                          + parse_f64(caps.v.mins).v.s * 60
                          + parse_f64(caps.v.secs).v.s) * 1000000
                         + (IF caps.v.subs.some
                            THEN parse_f64(caps.v.subs.v).v.s
                                 * 10 ^ (6 - Len(caps.v.subs.v))
                            ELSE 0)]

\* Cutlist::try_from_intervals, with RE_INTERVALS of cutlist.rs:
\* ^(frames|time):((\[[^,]+,[^,]+\])+)$.  A group holds one comma; two
\* groups meet at a "]" followed by "[" between their commas.
try_from_intervals(intervals) ==
    LET rest == SubSeq(intervals, 3, Len(intervals))
        n == Len(rest)
        commas == { i \in 1..n : rest[i] = "," }
        is_match ==
            /\ Len(intervals) >= 2
            /\ intervals[1] \in {"frames", "time"}
            /\ intervals[2] = ":"
            /\ commas # {}
            /\ rest[1] = "["
            /\ rest[n] = "]"
            /\ \A c \in commas :
                /\ c >= 3
                /\ c <= n - 2
                /\ \A d \in commas :
                    (c < d /\ \A x \in commas : ~(c < x /\ x < d))
                        => \E j \in (c + 2)..(d - 3) :
                                rest[j] = "]" /\ rest[j + 1] = "["
        kind == IF intervals[1] = "frames" THEN "Frames" ELSE "Time"
        pieces == split(rest, "]")
        RECURSIVE loop(_, _)
        loop(k, items) ==
            IF k > Len(pieces)
            THEN LET cl == [x \in {kind} |-> items]
                 IN  IF Cutlist_validate(cl) = "ok"
                     THEN [res |-> "ok", v |-> cl]
                     ELSE [res |-> "err", v |-> Nothing]
            ELSE IF pieces[k] = <<>> THEN loop(k + 1, items)
            ELSE LET points == split(Tail(pieces[k]), ",")
                 IN  IF Len(points) < 2 THEN [res |-> "panic", v |-> Nothing]
                     ELSE LET start == cut_str_to_f64(kind, points[1])
                          IN  IF start.res # "ok" THEN start
                              ELSE LET e == cut_str_to_f64(kind, points[2])
                                   IN  IF e.res # "ok" THEN e
                                       ELSE loop(k + 1,
                                                Append(items,
                                                       [start |-> start.v,
                                                        end |-> e.v]))
    IN  IF is_match THEN loop(1, <<>>)
        ELSE [res |-> "err", v |-> Nothing]

(***************************************************************************)
(* One call of a parsing function or constructor on a string or on         *)
(* boundaries of the caller.                                               *)
(***************************************************************************)
TimeFromStr ==
    /\ s_call = Nothing
    /\ s_call' = Some([fn |-> "Time::from_str", r |-> Time_from_str(s_str)])
    /\ UNCHANGED s_str
    /\ UNCHANGED <<decVars, valVars, planVars, cutVars, drvVars, keyVars,
                   iniVars>>

IntervalFromStr ==
    /\ s_call = Nothing
    /\ \E kind \in {"frame", "time"} :
        s_call' = Some([fn |-> "Interval::from_str",
                        r |-> Interval_from_str(kind, s_str)])
    /\ UNCHANGED s_str
    /\ UNCHANGED <<decVars, valVars, planVars, cutVars, drvVars, keyVars,
                   iniVars>>

FromStartDuration ==
    /\ s_call = Nothing
    /\ \E kind \in {"frame", "time"}, start, duration \in 0..MaxBoundary :
        s_call' = Some([fn |-> "Interval::from_start_duration",
                        r |-> [res |-> "ok",
                               v |-> from_start_duration(kind,
                                        [s |-> start, u |-> 0],
                                        [s |-> duration, u |-> 0])]])
    /\ UNCHANGED s_str
    /\ UNCHANGED <<decVars, valVars, planVars, cutVars, drvVars, keyVars,
                   iniVars>>

IntervalsFromStr ==
    /\ s_call = Nothing
    /\ \E kind \in {"frame", "time"}, overflow_checks \in BOOLEAN :
        s_call' = Some([fn |-> "intervals_from_str",
                        r |-> intervals_from_str(kind, s_str,
                                                 overflow_checks)])
    /\ UNCHANGED s_str
    /\ UNCHANGED <<decVars, valVars, planVars, cutVars, drvVars, keyVars,
                   iniVars>>

TryFromIntervals ==
    /\ s_call = Nothing
    /\ s_call' = Some([fn |-> "Cutlist::try_from_intervals",
                       r |-> try_from_intervals(s_str)])
    /\ UNCHANGED s_str
    /\ UNCHANGED <<decVars, valVars, planVars, cutVars, drvVars, keyVars,
                   iniVars>>

NextStr ==
    \/ TimeFromStr
    \/ IntervalFromStr
    \/ FromStartDuration
    \/ IntervalsFromStr
    \/ TryFromIntervals

\* The strings: time strings in and around the grammar, interval strings
\* over frame and time boundaries, strings of up to two intervals with and
\* without the prefix of the command line.
StrInit ==
    /\ LET Hours == { <<"0">>, <<"1">>, <<"2", "3">>, <<"2", "4">>, <<>> }
           Two == { <<"0", "0">>, <<"5", "9">>, <<"6", "0">>, <<"0">>,
                    <<"0", "0", "0", "0">> }
           Subs == { <<>>, <<".">>, <<".", "5">>,
                     <<".", "0", "0", "0", "0", "0", "0">>,
                     <<".", "9", "9", "9", "9", "9", "9">>,
                     <<".", "0", "0", "0", "0", "0", "0", "0">>,
                     <<".", "1", ".", "2">> }
           TimeStrings ==
               { h \o <<":">> \o m \o <<":">> \o sec \o f :
                   h \in Hours, m \in Two, sec \in Two, f \in Subs }
               \cup { h \o <<":">> \o m : h \in Hours, m \in Two }
           Boundaries ==
               { <<"3">>, <<"5">>, <<"-", "3">>, <<"2", ".", "5">>, <<"x">>,
                 <<"0", ":", "0", "0", ":", "0", "1">>,
                 <<"0", ":", "0", "0", ":", "0", "2">>,
                 <<"1", ":", "0", "0", ":", "0", "0", ".">> }
           One(B) == { <<"[">> \o a \o <<",">> \o b \o <<"]">> :
                         a \in B, b \in B }
           Short == { <<"3">>, <<"5">>,
                      <<"0", ":", "0", "0", ":", "0", "1">>,
                      <<"0", ":", "0", "0", ":", "0", "2">> }
           Lists ==
               One(Boundaries)
               \cup { i \o j : i \in One(Short),
                               j \in One(Short) \cup { <<"[", "3", "]">> } }
               \cup { <<"[", "3", ",", "5">>, <<"[", ",", "5", "]">>,
                      <<"3", ",", "5", "]">>, <<>> }
       IN  s_str \in TimeStrings \cup Lists
                     \cup { <<p, ":">> \o l :
                              p \in {"frames", "time", "x"}, l \in Lists }
    /\ s_call = Nothing
    /\ IdleDecode /\ IdleValidate /\ IdlePlan /\ IdleLate("str")

SpecStr == StrInit /\ [][NextStr]_vars

(***************************************************************************)
(* Properties of the parsing functions, checked under SpecStr.             *)
(***************************************************************************)
\* The intervals a call has returned.
IntervalsOf(c) ==
    IF c.r.res # "ok" THEN {}
    ELSE IF c.fn \in {"Interval::from_str", "Interval::from_start_duration"}
    THEN {c.r.v}
    ELSE IF c.fn = "intervals_from_str"
    THEN { c.r.v[k] : k \in 1..Len(c.r.v) }
    ELSE {}

\* C21: every interval a constructor or a parsing function returns has
\* from <= to, so that to - from does not underflow.
C21_FromNotAfterTo ==
    s_call.some =>
        \A i \in IntervalsOf(s_call.v) : ~Boundary_lt(i.to, i.from)

\* The time strings of the grammar H+:MM:SS[.ssssss]: hours 0..23, two
\* digits <= 59 for minutes and for seconds, one to six decimals.
TimeGrammar(s) ==
    LET parts == split(s, ":")
        AllDigits(d) ==
            \A i \in 1..Len(d) :
                d[i] \in {"0", "1", "2", "3", "4", "5", "6", "7", "8", "9"}
        UpTo(d, max) == d # <<>> /\ AllDigits(d) /\ parse_f64(d).v.s <= max
        rest == split(parts[3], ".")
    IN  /\ Len(parts) = 3
        /\ UpTo(parts[1], 23)
        /\ Len(parts[2]) = 2 /\ UpTo(parts[2], 59)
        /\ Len(rest) \in {1, 2}
        /\ Len(rest[1]) = 2 /\ UpTo(rest[1], 59)
        /\ Len(rest) = 2 => AllDigits(rest[2]) /\ Len(rest[2]) \in 1..6

\* C22: Time::from_str returns a time for the strings of the grammar, an
\* error for every other string, and never aborts.
C22_TimeStringsByGrammar ==
    (s_call.some /\ s_call.v.fn = "Time::from_str") =>
        /\ s_call.v.r.res # "panic"
        /\ s_call.v.r.res = "ok" <=> TimeGrammar(s_str)

\* C23: after a successful parse of a string of intervals, with or without
\* the prefix of the kind, every interval returned has positive length.
C23_NoZeroLengthAfterParse ==
    (s_call.some /\ s_call.v.r.res = "ok") =>
        /\ s_call.v.fn = "intervals_from_str" =>
            \A i \in IntervalsOf(s_call.v) : Boundary_lt(i.from, i.to)
        /\ s_call.v.fn = "Cutlist::try_from_intervals" =>
            \A k \in DOMAIN s_call.v.r.v :
                \A n \in 1..Len(s_call.v.r.v[k]) :
                    s_call.v.r.v[k][n].start < s_call.v.r.v[k][n].end

====
